---- MODULE Spec2Model ----
(***************************************************************************)
(* GMPlayer window layer (src-tauri/src/window, src-tauri/src/lib.rs):     *)
(* the window manager, the payload cache, the tray controller and the      *)
(* tray-popup positioner, as a state machine.                              *)
(*                                                                         *)
(* A live window is a handle record; the registry `windows` is the set of  *)
(* live handles of the host (tauri).  Every fallible host call of a        *)
(* handler can fail: an input f names the host call of the handler that    *)
(* fails (0: none fails).                                                  *)
(*                                                                         *)
(* Lengths are f64 in the source.  They are held here in eighths of a      *)
(* pixel (an integer n stands for n/8), which is exact for integer pixel   *)
(* values and for the scale factors 1, 1.25, 1.5 and 2.                    *)
(***************************************************************************)
EXTENDS Integers, Sequences, FiniteSets, TLC

VARIABLES
    platform,   \* target_os of the build
    phase,      \* "setup" | "running" | "panicked" | "exited"
    tray,       \* the tray icon was built
    store,      \* the window-state store: label -> Option<saved state>
    windows,    \* the live window handles of the host
    focus,      \* id of the handle holding input focus, NoId for none
    cache,      \* PAYLOAD_CACHE: label -> Option<Value>
    emitted,    \* notifications emitted by the last handler, in order
    last,       \* the last handler run: what was called and what it returned
    hist,       \* payload-cache log: the cache operations run so far
    pc,         \* concurrent payload commands: position of each thread
    mutex,      \* holder of the PAYLOAD_CACHE lock, 0 when free
    tmp         \* concurrent payload commands: the call of each thread

vars == <<platform, phase, tray, store, windows, focus, cache, emitted, last, hist, pc, mutex, tmp>>

----------------------------------------------------------------------------
(* Option<T> *)

None == [some |-> FALSE]

Some(v) == [some |-> TRUE, val |-> v]

----------------------------------------------------------------------------
(* Labels, platforms and payloads the commands are called with *)

Labels == {"main", "tray-popup", "note"}

NoLabel == ""

Platforms == {"windows", "macos"}

Payloads == {"p1", "p2"}

----------------------------------------------------------------------------
(* config.rs: the preset catalog *)

main ==
    [label |-> "main", width |-> 881, height |-> 653,
     resizable |-> TRUE, decorations |-> FALSE, transparent |-> FALSE,
     always_on_top |-> FALSE, skip_taskbar |-> FALSE, center |-> FALSE,
     visible |-> TRUE, single_instance |-> TRUE, closeable_to_tray |-> TRUE,
     use_overlay_titlebar |-> TRUE, traffic_lights_inset |-> TRUE,
     window_effect |-> "", shadow |-> TRUE, parent_label |-> NoLabel]

mini_player ==
    [label |-> "mini-player", width |-> 350, height |-> 80,
     resizable |-> FALSE, decorations |-> FALSE, transparent |-> TRUE,
     always_on_top |-> TRUE, skip_taskbar |-> TRUE, center |-> FALSE,
     visible |-> TRUE, single_instance |-> TRUE, closeable_to_tray |-> FALSE,
     use_overlay_titlebar |-> FALSE, traffic_lights_inset |-> FALSE,
     window_effect |-> "acrylic", shadow |-> TRUE, parent_label |-> NoLabel]

desktop_lyrics ==
    [label |-> "desktop-lyrics", width |-> 800, height |-> 120,
     resizable |-> TRUE, decorations |-> FALSE, transparent |-> TRUE,
     always_on_top |-> TRUE, skip_taskbar |-> TRUE, center |-> FALSE,
     visible |-> TRUE, single_instance |-> TRUE, closeable_to_tray |-> FALSE,
     use_overlay_titlebar |-> FALSE, traffic_lights_inset |-> FALSE,
     window_effect |-> "", shadow |-> FALSE, parent_label |-> NoLabel]

settings ==
    [label |-> "settings", width |-> 700, height |-> 500,
     resizable |-> TRUE, decorations |-> FALSE, transparent |-> FALSE,
     always_on_top |-> FALSE, skip_taskbar |-> FALSE, center |-> TRUE,
     visible |-> TRUE, single_instance |-> TRUE, closeable_to_tray |-> FALSE,
     use_overlay_titlebar |-> TRUE, traffic_lights_inset |-> TRUE,
     window_effect |-> "", shadow |-> TRUE, parent_label |-> NoLabel]

about ==
    [label |-> "about", width |-> 400, height |-> 350,
     resizable |-> FALSE, decorations |-> FALSE, transparent |-> FALSE,
     always_on_top |-> TRUE, skip_taskbar |-> FALSE, center |-> TRUE,
     visible |-> TRUE, single_instance |-> TRUE, closeable_to_tray |-> FALSE,
     use_overlay_titlebar |-> TRUE, traffic_lights_inset |-> TRUE,
     window_effect |-> "", shadow |-> TRUE, parent_label |-> NoLabel]

tray_popup ==
    [label |-> "tray-popup", width |-> 260, height |-> 310,
     resizable |-> FALSE, decorations |-> FALSE, transparent |-> TRUE,
     always_on_top |-> TRUE, skip_taskbar |-> TRUE, center |-> FALSE,
     visible |-> FALSE, single_instance |-> TRUE, closeable_to_tray |-> FALSE,
     use_overlay_titlebar |-> FALSE, traffic_lights_inset |-> FALSE,
     window_effect |-> "acrylic", shadow |-> TRUE, parent_label |-> NoLabel]

(* Variant of from_label that knows no about window *)
from_label_without_about(label) ==
    CASE label = "main" -> Some(main)
      [] label = "mini-player" -> Some(mini_player)
      [] label = "desktop-lyrics" -> Some(desktop_lyrics)
      [] label = "settings" -> Some(settings)
      [] label = "tray-popup" -> Some(tray_popup)
      [] OTHER -> None

(* Variant of from_label whose main preset does not close to the tray *)
from_label_main_closes(label) ==
    CASE label = "main" -> Some([main EXCEPT !.closeable_to_tray = FALSE])
      [] label = "mini-player" -> Some(mini_player)
      [] label = "desktop-lyrics" -> Some(desktop_lyrics)
      [] label = "settings" -> Some(settings)
      [] label = "about" -> Some(about)
      [] label = "tray-popup" -> Some(tray_popup)
      [] OTHER -> None

from_label(label) ==
    CASE label = "main" -> Some(main)
      [] label = "mini-player" -> Some(mini_player)
      [] label = "desktop-lyrics" -> Some(desktop_lyrics)
      [] label = "settings" -> Some(settings)
      [] label = "about" -> Some(about)
      [] label = "tray-popup" -> Some(tray_popup)
      [] OTHER -> None

(* Custom configurations as create_custom_window receives them, for a      *)
(* label without preset: initial visibility, single_instance and the       *)
(* parent vary; all ask for closeable_to_tray, which the manager never     *)
(* reads from a config.                                                    *)
CustomConfigs ==
    { [label |-> l, width |-> 300, height |-> 200,
       resizable |-> TRUE, decorations |-> FALSE, transparent |-> FALSE,
       always_on_top |-> FALSE, skip_taskbar |-> FALSE, center |-> FALSE,
       visible |-> v, single_instance |-> si, closeable_to_tray |-> TRUE,
       use_overlay_titlebar |-> FALSE, traffic_lights_inset |-> FALSE,
       window_effect |-> "", shadow |-> FALSE, parent_label |-> p] :
      l \in {"note"}, v \in BOOLEAN, si \in BOOLEAN,
      p \in {NoLabel, "tray-popup"} }

----------------------------------------------------------------------------
(* The host's window handles *)

DefaultTint == <<30, 30, 30, 200>>

Tints == {DefaultTint, <<0, 0, 0, 0>>}

Lookup(ws, label) ==
    IF \E w \in ws : w.label = label
    THEN Some(CHOOSE w \in ws : w.label = label)
    ELSE None

(* The identity of a new handle: the label and a serial among the live     *)
(* handles of that label                                                   *)
NewId(ws, label) == <<label, Cardinality({w \in ws : w.label = label}) + 1>>

NoId == <<>>

Update(ws, id, field, value) ==
    { IF w.id = id THEN [w EXCEPT ![field] = value] ELSE w : w \in ws }

HostShow(ws, id) == Update(ws, id, "visible", TRUE)

HostHide(ws, id) == Update(ws, id, "visible", FALSE)

HostUnminimize(ws, id) == Update(ws, id, "minimized", FALSE)

HostDestroy(ws, id) == { w \in ws : w.id # id }

HostSetPosition(ws, id, p) == Update(ws, id, "pos", p)

HostSetSize(ws, id, s) == Update(ws, id, "size", s)

HostSetFocus(fo, id) == id

(* The focus after a handle is destroyed *)
FocusAfterDestroy(fo, id) == IF fo = id THEN NoId ELSE fo

IsVisible(ws, label) == Lookup(ws, label).some /\ Lookup(ws, label).val.visible

IsMinimized(ws, label) == Lookup(ws, label).some /\ Lookup(ws, label).val.minimized

Exists(label) == Lookup(windows, label).some

Visible(label) == IsVisible(windows, label)

----------------------------------------------------------------------------
(* Notifications *)

MainWindowVisibility(b) == [name |-> "main-window-visibility", arg |-> <<b>>]

TrayPopupOpened == [name |-> "tray-popup-opened", arg |-> <<>>]

----------------------------------------------------------------------------
(* manager.rs.  Each function is an operator from the host state (ws, fo)  *)
(* and its arguments to an outcome: the value returned, the host state     *)
(* left behind, the notifications emitted and whether a handle was built.  *)

Outcome(ret, ws, fo, em, built) ==
    [ret |-> ret, ws |-> ws, fo |-> fo, em |-> em, built |-> built]

(* build_window_effects_with_color: the effects config of a named effect *)
build_window_effects_with_color(pf, effect, color) ==
    IF effect = "acrylic"
    THEN Some(CASE pf = "windows" -> [effect |-> "Acrylic", color |-> color]
                [] pf = "macos" -> [effect |-> "HudWindow", color |-> <<>>]
                [] OTHER -> [effect |-> "", color |-> <<>>])
    ELSE None

build_window_effects(pf, effect) ==
    build_window_effects_with_color(pf, effect, DefaultTint)

NoEffects == [effect |-> "", color |-> <<>>]

(* WebviewWindowBuilder::build: the handle of a new window.  The host      *)
(* refuses a label that is in use.                                        *)
NewHandle(ws, config) ==
    [id |-> NewId(ws, config.label), label |-> config.label, visible |-> config.visible,
     minimized |-> FALSE, pos |-> <<0, 0>>,
     size |-> <<config.width, config.height>>,
     ignore_cursor |-> FALSE, effects |-> NoEffects]

HostBuildRefuses(ws, label) == \E w \in ws : w.label = label

(* The single-instance branch of create_window, lines 24-29: f = 1 show    *)
(* fails, f = 2 unminimize fails, f = 3 set_focus fails; q: the            *)
(* is_minimized query answers.                                            *)
focus_existing(ws, fo, existing, f, q) ==
    IF f = 1 THEN Outcome("HostFailure", ws, fo, <<>>, FALSE)
    ELSE LET w1 == HostShow(ws, existing.id)
             unmin == q /\ existing.minimized
             w2 == IF unmin THEN HostUnminimize(w1, existing.id) ELSE w1
         IN  IF unmin /\ f = 2 THEN Outcome("HostFailure", w1, fo, <<>>, FALSE)
             ELSE IF f = 3 THEN Outcome("HostFailure", w2, fo, <<>>, FALSE)
             ELSE Outcome("Ok", w2, HostSetFocus(fo, existing.id), <<>>, FALSE)

(* Variant of the construction branch that builds without looking for the *)
(* parent                                                                  *)
build_new_orphan(pf, ws, fo, config, f) ==
    IF f = 5 \/ HostBuildRefuses(ws, config.label)
    THEN Outcome("HostFailure", ws, fo, <<>>, FALSE)
    ELSE LET h == NewHandle(ws, config)
             fx == IF config.window_effect # ""
                   THEN build_window_effects(pf, config.window_effect)
                   ELSE None
             h1 == IF fx.some /\ f # 6 THEN [h EXCEPT !.effects = fx.val] ELSE h
         IN  Outcome("Ok", ws \cup {h1}, IF config.visible THEN h.id ELSE fo, <<>>, TRUE)

(* The construction branch of create_window, lines 33-105: f = 4 parent()  *)
(* fails, f = 5 build fails, f = 6 set_effects fails (ignored), and on     *)
(* macOS f = 7 create_overlay_titlebar, f = 8 set_traffic_lights_inset,    *)
(* f = 9 make_transparent fails.                                          *)
build_new(pf, ws, fo, config, f) ==
    IF config.parent_label # NoLabel /\ ~Lookup(ws, config.parent_label).some
    THEN Outcome("ParentNotFound", ws, fo, <<>>, FALSE)
    ELSE IF config.parent_label # NoLabel /\ f = 4
    THEN Outcome("HostFailure", ws, fo, <<>>, FALSE)
    ELSE IF f = 5 \/ HostBuildRefuses(ws, config.label)
    THEN Outcome("HostFailure", ws, fo, <<>>, FALSE)
    ELSE LET h == NewHandle(ws, config)
             fx == IF config.window_effect # ""
                   THEN build_window_effects(pf, config.window_effect)
                   ELSE None
             h1 == IF fx.some /\ f # 6 THEN [h EXCEPT !.effects = fx.val] ELSE h
             w1 == ws \cup {h1}
             fo1 == IF config.visible THEN h.id ELSE fo
         IN  IF pf = "macos" /\ config.use_overlay_titlebar /\ f = 7
             THEN Outcome("HostFailure", w1, fo1, <<>>, TRUE)
             ELSE IF pf = "macos" /\ config.traffic_lights_inset /\ f = 8
             THEN Outcome("HostFailure", w1, fo1, <<>>, TRUE)
             ELSE IF pf = "macos" /\ config.transparent /\ f = 9
             THEN Outcome("HostFailure", w1, fo1, <<>>, TRUE)
             ELSE Outcome("Ok", w1, fo1, <<>>, TRUE)

(* Variant of create_window without the single-instance lookup *)
create_window_always_builds(pf, ws, fo, config, f, q) ==
    build_new(pf, ws, fo, config, f)

create_window(pf, ws, fo, config, f, q) ==
    IF config.single_instance /\ Lookup(ws, config.label).some
    THEN focus_existing(ws, fo, Lookup(ws, config.label).val, f, q)
    ELSE build_new(pf, ws, fo, config, f)

(* f = 1 show fails, f = 2 set_focus fails *)
show_window(ws, fo, label, f) ==
    LET window == Lookup(ws, label) IN
    IF ~window.some THEN Outcome("NotFound", ws, fo, <<>>, FALSE)
    ELSE IF f = 1 THEN Outcome("HostFailure", ws, fo, <<>>, FALSE)
    ELSE LET w1 == HostShow(ws, window.val.id) IN
         IF f = 2 THEN Outcome("HostFailure", w1, fo, <<>>, FALSE)
         ELSE Outcome("Ok", w1, HostSetFocus(fo, window.val.id),
                      IF label = "main" THEN <<MainWindowVisibility(TRUE)>> ELSE <<>>,
                      FALSE)

(* Variant of hide_window that emits nothing *)
hide_window_silent(ws, fo, label, f) ==
    LET window == Lookup(ws, label) IN
    IF ~window.some THEN Outcome("NotFound", ws, fo, <<>>, FALSE)
    ELSE IF f = 1 THEN Outcome("HostFailure", ws, fo, <<>>, FALSE)
    ELSE Outcome("Ok", HostHide(ws, window.val.id), fo, <<>>, FALSE)

(* f = 1 hide fails *)
hide_window(ws, fo, label, f) ==
    LET window == Lookup(ws, label) IN
    IF ~window.some THEN Outcome("NotFound", ws, fo, <<>>, FALSE)
    ELSE IF f = 1 THEN Outcome("HostFailure", ws, fo, <<>>, FALSE)
    ELSE Outcome("Ok", HostHide(ws, window.val.id), fo,
                 IF label = "main" THEN <<MainWindowVisibility(FALSE)>> ELSE <<>>,
                 FALSE)

(* Variant of close_window that destroys whatever the preset says *)
close_window_destroys(ws, fo, label, f) ==
    LET window == Lookup(ws, label) IN
    IF ~window.some THEN Outcome("NotFound", ws, fo, <<>>, FALSE)
    ELSE IF f = 1 THEN Outcome("HostFailure", ws, fo, <<>>, FALSE)
    ELSE Outcome("Ok", HostDestroy(ws, window.val.id),
                 FocusAfterDestroy(fo, window.val.id), <<>>, FALSE)

(* Variant of close_window that hides whatever the preset says *)
close_window_hides(ws, fo, label, f) ==
    hide_window(ws, fo, label, f)

(* Variant of close_window that hides a window whose label has no preset *)
close_window_hides_unknown(ws, fo, label, f) ==
    LET preset == from_label(label) IN
    IF ~preset.some \/ preset.val.closeable_to_tray
    THEN hide_window(ws, fo, label, f)
    ELSE LET window == Lookup(ws, label) IN
         IF ~window.some THEN Outcome("NotFound", ws, fo, <<>>, FALSE)
         ELSE IF f = 1 THEN Outcome("HostFailure", ws, fo, <<>>, FALSE)
         ELSE Outcome("Ok", HostDestroy(ws, window.val.id),
                      FocusAfterDestroy(fo, window.val.id), <<>>, FALSE)

(* f = 1 hide (tray-closeable) or destroy fails *)
close_window(ws, fo, label, f) ==
    LET preset == from_label(label) IN
    IF preset.some /\ preset.val.closeable_to_tray
    THEN hide_window(ws, fo, label, f)
    ELSE LET window == Lookup(ws, label) IN
         IF ~window.some THEN Outcome("NotFound", ws, fo, <<>>, FALSE)
         ELSE IF f = 1 THEN Outcome("HostFailure", ws, fo, <<>>, FALSE)
         ELSE Outcome("Ok", HostDestroy(ws, window.val.id),
                      FocusAfterDestroy(fo, window.val.id), <<>>, FALSE)

(* Variant of toggle_window whose hidden branch leaves the window hidden *)
toggle_window_never_shows(ws, fo, label, f, q) ==
    LET window == Lookup(ws, label) IN
    IF ~window.some THEN Outcome("NotFound", ws, fo, <<>>, FALSE)
    ELSE IF f \in 1..2 THEN Outcome("HostFailure", ws, fo, <<>>, FALSE)
    ELSE IF window.val.visible
    THEN Outcome("Ok", HostHide(ws, window.val.id), fo,
                 IF label = "main" THEN <<MainWindowVisibility(FALSE)>> ELSE <<>>,
                 FALSE)
    ELSE IF f = 4 THEN Outcome("HostFailure", ws, fo, <<>>, FALSE)
         ELSE Outcome("Ok", ws, HostSetFocus(fo, window.val.id),
                      IF label = "main" THEN <<MainWindowVisibility(TRUE)>> ELSE <<>>,
                      FALSE)

(* Variant of toggle_window that un-minimizes whatever is_minimized says *)
toggle_window_always_unminimizes(ws, fo, label, f, q) ==
    LET window == Lookup(ws, label) IN
    IF ~window.some THEN Outcome("NotFound", ws, fo, <<>>, FALSE)
    ELSE IF f = 1 THEN Outcome("HostFailure", ws, fo, <<>>, FALSE)
    ELSE IF window.val.visible
    THEN IF f = 2 THEN Outcome("HostFailure", ws, fo, <<>>, FALSE)
         ELSE Outcome("Ok", HostHide(ws, window.val.id), fo,
                      IF label = "main" THEN <<MainWindowVisibility(FALSE)>> ELSE <<>>,
                      FALSE)
    ELSE IF f = 2 THEN Outcome("HostFailure", ws, fo, <<>>, FALSE)
         ELSE LET w1 == HostShow(ws, window.val.id)
                  w2 == HostUnminimize(w1, window.val.id)
              IN  IF f = 3 THEN Outcome("HostFailure", w1, fo, <<>>, FALSE)
                  ELSE IF f = 4 THEN Outcome("HostFailure", w2, fo, <<>>, FALSE)
                  ELSE Outcome("Ok", w2, HostSetFocus(fo, window.val.id),
                               IF label = "main" THEN <<MainWindowVisibility(TRUE)>>
                               ELSE <<>>,
                               FALSE)

(* f = 1 is_visible fails, f = 2 hide or show fails, f = 3 unminimize      *)
(* fails, f = 4 set_focus fails; q: the is_minimized query answers.        *)
toggle_window(ws, fo, label, f, q) ==
    LET window == Lookup(ws, label) IN
    IF ~window.some THEN Outcome("NotFound", ws, fo, <<>>, FALSE)
    ELSE IF f = 1 THEN Outcome("HostFailure", ws, fo, <<>>, FALSE)
    ELSE IF window.val.visible
    THEN IF f = 2 THEN Outcome("HostFailure", ws, fo, <<>>, FALSE)
         ELSE Outcome("Ok", HostHide(ws, window.val.id), fo,
                      IF label = "main" THEN <<MainWindowVisibility(FALSE)>> ELSE <<>>,
                      FALSE)
    ELSE IF f = 2 THEN Outcome("HostFailure", ws, fo, <<>>, FALSE)
         ELSE LET w1 == HostShow(ws, window.val.id)
                  unmin == q /\ window.val.minimized
                  w2 == IF unmin THEN HostUnminimize(w1, window.val.id) ELSE w1
              IN  IF unmin /\ f = 3 THEN Outcome("HostFailure", w1, fo, <<>>, FALSE)
                  ELSE IF f = 4 THEN Outcome("HostFailure", w2, fo, <<>>, FALSE)
                  ELSE Outcome("Ok", w2, HostSetFocus(fo, window.val.id),
                               IF label = "main" THEN <<MainWindowVisibility(TRUE)>>
                               ELSE <<>>,
                               FALSE)

(* f = 1 show fails, f = 2 unminimize fails, f = 3 set_focus fails *)
focus_window(ws, fo, label, f, q) ==
    LET window == Lookup(ws, label) IN
    IF ~window.some THEN Outcome("NotFound", ws, fo, <<>>, FALSE)
    ELSE IF f = 1 THEN Outcome("HostFailure", ws, fo, <<>>, FALSE)
    ELSE LET w1 == HostShow(ws, window.val.id)
             unmin == q /\ window.val.minimized
             w2 == IF unmin THEN HostUnminimize(w1, window.val.id) ELSE w1
         IN  IF unmin /\ f = 2 THEN Outcome("HostFailure", w1, fo, <<>>, FALSE)
             ELSE IF f = 3 THEN Outcome("HostFailure", w2, fo, <<>>, FALSE)
             ELSE Outcome("Ok", w2, HostSetFocus(fo, window.val.id),
                          IF label = "main" THEN <<MainWindowVisibility(TRUE)>> ELSE <<>>,
                          FALSE)

window_exists(ws, label) == Lookup(ws, label).some

(* f = 1 is_visible fails *)
is_window_visible(ws, label, f) ==
    LET window == Lookup(ws, label) IN
    IF ~window.some THEN [ret |-> "NotFound", value |-> FALSE]
    ELSE IF f = 1 THEN [ret |-> "HostFailure", value |-> FALSE]
    ELSE [ret |-> "Ok", value |-> window.val.visible]

list_windows(ws) == { w.label : w \in ws }

(* Variant of show_window_at_position that shows before it repositions:    *)
(* f = 1 show fails, f = 2 set_position fails, f = 3 set_focus fails       *)
show_window_at_position_shows_first(ws, fo, label, x, y, f) ==
    LET window == Lookup(ws, label) IN
    IF ~window.some THEN Outcome("NotFound", ws, fo, <<>>, FALSE)
    ELSE IF f = 1 THEN Outcome("HostFailure", ws, fo, <<>>, FALSE)
    ELSE LET w1 == HostShow(ws, window.val.id) IN
         IF f = 2 THEN Outcome("HostFailure", w1, fo, <<>>, FALSE)
         ELSE LET w2 == HostSetPosition(w1, window.val.id, <<x, y>>) IN
              IF f = 3 THEN Outcome("HostFailure", w2, fo, <<>>, FALSE)
              ELSE Outcome("Ok", w2, HostSetFocus(fo, window.val.id), <<>>, FALSE)

(* f = 1 set_position fails, f = 2 show fails, f = 3 set_focus fails *)
show_window_at_position(ws, fo, label, x, y, f) ==
    LET window == Lookup(ws, label) IN
    IF ~window.some THEN Outcome("NotFound", ws, fo, <<>>, FALSE)
    ELSE IF f = 1 THEN Outcome("HostFailure", ws, fo, <<>>, FALSE)
    ELSE LET w1 == HostSetPosition(ws, window.val.id, <<x, y>>) IN
         IF f = 2 THEN Outcome("HostFailure", w1, fo, <<>>, FALSE)
         ELSE LET w2 == HostShow(w1, window.val.id) IN
              IF f = 3 THEN Outcome("HostFailure", w2, fo, <<>>, FALSE)
              ELSE Outcome("Ok", w2, HostSetFocus(fo, window.val.id), <<>>, FALSE)

(* Variant of set_ignore_cursor_events that accepts an absent label *)
set_ignore_cursor_events_unchecked(ws, fo, label, ignore, f) ==
    LET window == Lookup(ws, label) IN
    IF f = 1 THEN Outcome("HostFailure", ws, fo, <<>>, FALSE)
    ELSE IF ~window.some THEN Outcome("Ok", ws, fo, <<>>, FALSE)
    ELSE Outcome("Ok", Update(ws, window.val.id, "ignore_cursor", ignore), fo, <<>>, FALSE)

(* f = 1 the host call fails *)
set_ignore_cursor_events(ws, fo, label, ignore, f) ==
    LET window == Lookup(ws, label) IN
    IF ~window.some THEN Outcome("NotFound", ws, fo, <<>>, FALSE)
    ELSE IF f = 1 THEN Outcome("HostFailure", ws, fo, <<>>, FALSE)
    ELSE Outcome("Ok", Update(ws, window.val.id, "ignore_cursor", ignore), fo, <<>>, FALSE)

resize_window(ws, fo, label, width, height, f) ==
    LET window == Lookup(ws, label) IN
    IF ~window.some THEN Outcome("NotFound", ws, fo, <<>>, FALSE)
    ELSE IF f = 1 THEN Outcome("HostFailure", ws, fo, <<>>, FALSE)
    ELSE Outcome("Ok", HostSetSize(ws, window.val.id, <<width, height>>), fo, <<>>, FALSE)

set_window_position(ws, fo, label, x, y, f) ==
    LET window == Lookup(ws, label) IN
    IF ~window.some THEN Outcome("NotFound", ws, fo, <<>>, FALSE)
    ELSE IF f = 1 THEN Outcome("HostFailure", ws, fo, <<>>, FALSE)
    ELSE Outcome("Ok", HostSetPosition(ws, window.val.id, <<x, y>>), fo, <<>>, FALSE)

(* f = 1 set_effects fails *)
set_window_effect_color(pf, ws, fo, label, color, f) ==
    LET window == Lookup(ws, label)
        preset == from_label(label)
        fx == IF preset.some /\ preset.val.window_effect # ""
              THEN build_window_effects_with_color(pf, preset.val.window_effect, color)
              ELSE None
    IN  IF ~window.some THEN Outcome("NotFound", ws, fo, <<>>, FALSE)
        ELSE IF fx.some /\ f = 1 THEN Outcome("HostFailure", ws, fo, <<>>, FALSE)
        ELSE IF fx.some
        THEN Outcome("Ok", Update(ws, window.val.id, "effects", fx.val), fo, <<>>, FALSE)
        ELSE Outcome("Ok", ws, fo, <<>>, FALSE)

(* commands.rs get_window_state: absent is an answer, not a failure;       *)
(* f = 1 is_visible fails                                                  *)
get_window_state(ws, label, f) ==
    LET exists == window_exists(ws, label)
        visible == IF exists THEN is_window_visible(ws, label, f)
                   ELSE [ret |-> "Ok", value |-> FALSE]
    IN  IF visible.ret # "Ok" THEN [ret |-> visible.ret, value |-> <<>>]
        ELSE [ret |-> "Ok", value |-> <<exists, visible.value>>]

(* commands.rs get_window_bounds: f = 1 outer_position fails, f = 2        *)
(* outer_size fails                                                        *)
get_window_bounds(ws, label, f) ==
    LET window == Lookup(ws, label) IN
    IF ~window.some THEN [ret |-> "NotFound", value |-> <<>>]
    ELSE IF f \in 1..2 THEN [ret |-> "HostFailure", value |-> <<>>]
    ELSE [ret |-> "Ok", value |-> window.val.pos \o window.val.size]

----------------------------------------------------------------------------
(* tray.rs: the popup positioner.  Lengths in eighths of a pixel. *)

Eighths(px) == 8 * px

(* `v as i32` of an f64 held in eighths: truncation toward zero (the       *)
(* positions reached here stay far inside the i32 range)                   *)
AsI32(v) == IF v >= 0 THEN v \div 8 ELSE -((-v) \div 8)

(* Variant of f64::max that keeps its receiver *)
MaxKeepsFirst(a, b) == a

Max(a, b) == IF a >= b THEN a ELSE b

(* Variant of Clamp that forgets the upper bound *)
ClampFromBelow(v, lo, hi) == IF v < lo THEN lo ELSE v

(* f64::clamp(min, max); the callers pass min <= max *)
Clamp(v, lo, hi) == IF v < lo THEN lo ELSE IF v > hi THEN hi ELSE v

(* Variant of IconPosition that takes logical coordinates as physical *)
IconPositionUnscaled(rect, scale_factor) ==
    <<Eighths(rect.position.x), Eighths(rect.position.y)>>

(* lines 84-87: the anchor's position in physical pixels *)
IconPosition(rect, scale_factor) ==
    IF rect.position.kind = "Physical"
    THEN <<Eighths(rect.position.x), Eighths(rect.position.y)>>
    ELSE <<rect.position.x * scale_factor, rect.position.y * scale_factor>>

(* lines 88-91: the anchor's size in physical pixels *)
IconSize(rect, scale_factor) ==
    IF rect.size.kind = "Physical"
    THEN <<Eighths(rect.size.width), Eighths(rect.size.height)>>
    ELSE <<rect.size.width * scale_factor, rect.size.height * scale_factor>>

(* lines 94-96 *)
PopupWidth(config, scale_factor) == config.width * scale_factor

PopupHeight(config, scale_factor) == config.height * scale_factor

Gap(scale_factor) == 8 * scale_factor

(* lines 99-107: the candidate position before clamping *)
Candidate(pf, config, rect, scale_factor) ==
    LET icon == IconPosition(rect, scale_factor)
        isz == IconSize(rect, scale_factor)
        x == icon[1] + (isz[1] \div 2) - (PopupWidth(config, scale_factor) \div 2)
        y == IF pf = "macos"
             THEN icon[2] + isz[2] + Gap(scale_factor)
             ELSE icon[2] - PopupHeight(config, scale_factor) - Gap(scale_factor)
    IN  <<x, y>>

(* lines 113-119: does monitor m contain the anchor's top-left point *)
MonitorContains(m, icon) ==
    LET ml == Eighths(m.x)
        mt == Eighths(m.y)
        mr == ml + Eighths(m.width)
        mb == mt + Eighths(m.height)
    IN  icon[1] >= ml /\ icon[1] < mr /\ icon[2] >= mt /\ icon[2] < mb

(* Variant of FindMonitor that takes the last monitor holding the anchor *)
FindMonitorLast(monitors, icon) ==
    IF \E i \in 1..Len(monitors) : MonitorContains(monitors[i], icon)
    THEN Some(monitors[CHOOSE i \in 1..Len(monitors) :
                  /\ MonitorContains(monitors[i], icon)
                  /\ \A j \in (i + 1)..Len(monitors) : ~MonitorContains(monitors[j], icon)])
    ELSE None

(* monitors.iter().find(..): the first monitor holding the anchor *)
FindMonitor(monitors, icon) ==
    IF \E i \in 1..Len(monitors) : MonitorContains(monitors[i], icon)
    THEN Some(monitors[CHOOSE i \in 1..Len(monitors) :
                  /\ MonitorContains(monitors[i], icon)
                  /\ \A j \in 1..(i - 1) : ~MonitorContains(monitors[j], icon)])
    ELSE None

(* Variant of ClampToMonitor that keeps only the popup's corner inside *)
ClampCornerToMonitor(monitor, config, scale_factor, cand) ==
    LET mon_left == Eighths(monitor.x)
        mon_top == Eighths(monitor.y)
        mon_right == mon_left + Eighths(monitor.width)
        mon_bottom == mon_top + Eighths(monitor.height)
    IN  <<Clamp(cand[1], mon_left, mon_right), Clamp(cand[2], mon_top, mon_bottom)>>

(* lines 121-131: the candidate clamped into the monitor *)
ClampToMonitor(monitor, config, scale_factor, cand) ==
    LET mon_left == Eighths(monitor.x)
        mon_top == Eighths(monitor.y)
        mon_right == mon_left + Eighths(monitor.width)
        mon_bottom == mon_top + Eighths(monitor.height)
    IN  <<Clamp(cand[1], mon_left,
                Max(mon_right - PopupWidth(config, scale_factor), mon_left)),
          Clamp(cand[2], mon_top,
                Max(mon_bottom - PopupHeight(config, scale_factor), mon_top))>>

(* lines 76-133: the position handed to show_window_at_position.           *)
(* popup: the popup handle was found; scale: Option of its scale factor;   *)
(* monitors: Option of the monitor list.                                   *)
PopupPosition(pf, config, rect, popup, scale, monitors) ==
    LET scale_factor == IF popup /\ scale.some THEN scale.val ELSE Eighths(1)
        cand == Candidate(pf, config, rect, scale_factor)
        target == IF popup /\ monitors.some
                  THEN FindMonitor(monitors.val, IconPosition(rect, scale_factor))
                  ELSE None
    IN  IF target.some
        THEN ClampToMonitor(target.val, config, scale_factor, cand)
        ELSE cand

(* Variant of show_tray_popup that forces the size after it has shown the  *)
(* popup                                                                   *)
show_tray_popup_sizes_last(pf, ws, fo, rect, env) ==
    LET config == tray_popup
        created == IF ~Lookup(ws, "tray-popup").some
                   THEN create_window(pf, ws, fo, config, env.fcreate, TRUE)
                   ELSE Outcome("Ok", ws, fo, <<>>, FALSE)
    IN  IF created.ret # "Ok" THEN created
        ELSE LET popup == Lookup(created.ws, "tray-popup")
                 xy == PopupPosition(pf, config, rect, popup.some, env.scale, env.monitors)
                 shown == show_window_at_position(created.ws, created.fo, "tray-popup",
                                                  AsI32(xy[1]), AsI32(xy[2]), env.fshow)
                 w1 == IF popup.some /\ env.size_ok
                       THEN HostSetSize(shown.ws, popup.val.id,
                                        <<config.width, config.height>>)
                       ELSE shown.ws
             IN  IF shown.ret # "Ok"
                 THEN Outcome(shown.ret, shown.ws, shown.fo, <<>>, created.built)
                 ELSE Outcome("Ok", w1, shown.fo, <<TrayPopupOpened>>, created.built)

(* Variant of show_tray_popup without the lazy creation *)
show_tray_popup_never_creates(pf, ws, fo, rect, env) ==
    LET config == tray_popup
        popup == Lookup(ws, "tray-popup")
        w1 == IF popup.some /\ env.size_ok
              THEN HostSetSize(ws, popup.val.id, <<config.width, config.height>>)
              ELSE ws
        xy == PopupPosition(pf, config, rect, popup.some, env.scale, env.monitors)
        shown == show_window_at_position(w1, fo, "tray-popup",
                                         AsI32(xy[1]), AsI32(xy[2]), env.fshow)
    IN  IF shown.ret # "Ok"
        THEN Outcome(shown.ret, shown.ws, shown.fo, <<>>, FALSE)
        ELSE Outcome("Ok", shown.ws, shown.fo, <<TrayPopupOpened>>, FALSE)

(* show_tray_popup.  env: fcreate the failing host call of the lazy        *)
(* create_window, size_ok whether set_size succeeds (ignored), scale and   *)
(* monitors what the host answers, fshow the failing host call of          *)
(* show_window_at_position.                                                *)
show_tray_popup(pf, ws, fo, rect, env) ==
    LET config == tray_popup
        created == IF ~Lookup(ws, "tray-popup").some
                   THEN create_window(pf, ws, fo, config, env.fcreate, TRUE)
                   ELSE Outcome("Ok", ws, fo, <<>>, FALSE)
    IN  IF created.ret # "Ok" THEN created
        ELSE LET popup == Lookup(created.ws, "tray-popup")
                 w1 == IF popup.some /\ env.size_ok
                       THEN HostSetSize(created.ws, popup.val.id,
                                        <<config.width, config.height>>)
                       ELSE created.ws
                 xy == PopupPosition(pf, config, rect, popup.some, env.scale, env.monitors)
                 shown == show_window_at_position(w1, created.fo, "tray-popup",
                                                  AsI32(xy[1]), AsI32(xy[2]), env.fshow)
             IN  IF shown.ret # "Ok"
                 THEN Outcome(shown.ret, shown.ws, shown.fo, <<>>, created.built)
                 ELSE Outcome("Ok", shown.ws, shown.fo, <<TrayPopupOpened>>, created.built)

----------------------------------------------------------------------------
(* payload.rs: PayloadCache, each call one critical section of the lock *)

payload_set(c, label, value) == [c EXCEPT ![label] = Some(value)]

(* Variant of take that leaves the entry in place *)
payload_take_keeps(c, label) == [ret |-> c[label], cache |-> c]

payload_take(c, label) == [ret |-> c[label], cache |-> [c EXCEPT ![label] = None]]

(* Variant of peek that consumes the entry *)
payload_peek_consumes(c, label) == [ret |-> c[label], cache |-> [c EXCEPT ![label] = None]]

payload_peek(c, label) == [ret |-> c[label], cache |-> c]

payload_clear(c) == [l \in DOMAIN c |-> None]

----------------------------------------------------------------------------
(* What the host answers to a tray click *)

Monitors ==
    <<[x |-> 0, y |-> 0, width |-> 800, height |-> 600],
      [x |-> 800, y |-> 0, width |-> 200, height |-> 300]>>

PhysicalRect(x, y, w, h) ==
    [position |-> [kind |-> "Physical", x |-> x, y |-> y],
     size |-> [kind |-> "Physical", width |-> w, height |-> h]]

LogicalRect(x, y, w, h) ==
    [position |-> [kind |-> "Logical", x |-> x, y |-> y],
     size |-> [kind |-> "Logical", width |-> w, height |-> h]]

TrayRects == {PhysicalRect(700, 560, 24, 24)}

TrayEnv(fcreate, size_ok, scale, monitors, fshow) ==
    [fcreate |-> fcreate, size_ok |-> size_ok, scale |-> scale,
     monitors |-> monitors, fshow |-> fshow]

TrayEnvs ==
    { TrayEnv(0, TRUE, Some(Eighths(1)), Some(Monitors), 0),
      TrayEnv(0, FALSE, None, Some(Monitors), 0),
      TrayEnv(5, TRUE, Some(Eighths(1)), Some(Monitors), 0),
      TrayEnv(9, TRUE, Some(Eighths(1)), Some(Monitors), 0) }
    \cup { TrayEnv(0, TRUE, Some(Eighths(1)), Some(Monitors), f) : f \in 1..3 }

(* A second layout: a monitor to the left of and above the primary one,    *)
(* so that physical coordinates are negative on it                         *)
MonitorsLeft ==
    <<[x |-> -1000, y |-> -100, width |-> 1000, height |-> 700],
      [x |-> 0, y |-> 0, width |-> 800, height |-> 600]>>

(* A third layout: a monitor above the primary one *)
MonitorsAbove ==
    <<[x |-> 0, y |-> 0, width |-> 800, height |-> 600],
      [x |-> 0, y |-> -700, width |-> 800, height |-> 700]>>

MonitorLayouts == {Monitors, MonitorsLeft, MonitorsAbove}

(* Layouts with monitors the popup does not fit in: one smaller than the   *)
(* popup both ways, one wider but lower, one higher but narrower           *)
MonitorsSmall ==
    <<[x |-> 0, y |-> 0, width |-> 200, height |-> 150],
      [x |-> 200, y |-> 0, width |-> 800, height |-> 200],
      [x |-> -240, y |-> 0, width |-> 240, height |-> 700]>>

(* Layouts with mirrored monitors, which share every point of the overlap *)
MonitorsOverlap ==
    <<[x |-> 0, y |-> 0, width |-> 800, height |-> 600],
      [x |-> 400, y |-> 0, width |-> 800, height |-> 600]>>

MonitorsOverlapReversed == <<MonitorsOverlap[2], MonitorsOverlap[1]>>

ClampLayouts == {Monitors, MonitorsSmall, MonitorsOverlap, MonitorsOverlapReversed}

(* Anchors on and beside the edges of these monitors, and logical anchors  *)
(* that are whole physical pixels at every scale factor                    *)
ClampRects ==
    { PhysicalRect(x, y, 24, 24) :
        x \in {-100, 0, 100, 199, 200, 450, 700, 799, 800, 1000, 1300},
        y \in {0, 100, 149, 150, 580, 600} }
    \cup { LogicalRect(x, y, 24, 24) : x \in {80, 560}, y \in {40, 400} }

(* Scale factors 1, 1.25, 1.5 and 2, in eighths *)
ScaleFactors == {Eighths(1), 10, 12, Eighths(2)}

(* Anchors the host can report: icons of 24 x 24 on a grid that touches    *)
(* every edge of every monitor, in physical and in logical units           *)
AnchorRects ==
    { PhysicalRect(x, y, 24, 24) :
        x \in {-1000, -500, -24, 0, 388, 776, 800, 976}, y \in {-700, -100, -24, 0, 276, 288, 576} }
    \cup { LogicalRect(x, y, 24, 24) :
             x \in {0, 300, 600}, y \in {0, 400} }

(* The failing host call and the is_minimized answer of one call *)
FailQuery(fails) == {<<0, TRUE>>, <<0, FALSE>>} \cup {<<f, TRUE>> : f \in fails}

ShowAtCoords == {<<540, 242>>}

----------------------------------------------------------------------------
(* The state machine *)

Static == <<platform, phase, tray, store>>

Tasks == <<hist, pc, mutex, tmp>>

NoCache == [l \in Labels |-> None]

Ran(op, label, ret, built, value) ==
    [op |-> op, label |-> label, ret |-> ret, built |-> built, value |-> value]

(* The labels the window-state store is followed for *)
StoreLabels == Labels \cup {"desktop-lyrics"}

NoStore == [l \in StoreLabels |-> None]

(* A handler that ran a manager function with outcome out *)
Finish(op, label, out) ==
    /\ windows' = out.ws
    /\ focus' = out.fo
    /\ emitted' = out.em
    /\ last' = Ran(op, label, out.ret, out.built, <<>>)

(* lib.rs run(): the main window is built from the application's           *)
(* configuration before setup runs; it starts hidden.                      *)
MainHandle ==
    [id |-> <<"main", 1>>, label |-> "main", visible |-> FALSE, minimized |-> FALSE,
     pos |-> <<0, 0>>, size |-> <<main.width, main.height>>,
     ignore_cursor |-> FALSE, effects |-> NoEffects]

InitHost ==
    /\ platform \in Platforms
    /\ phase = "setup"
    /\ tray = FALSE
    /\ store = NoStore
    /\ windows = {MainHandle}
    /\ focus = NoId
    /\ cache = NoCache
    /\ emitted = <<>>
    /\ last = [op |-> "init", label |-> NoLabel, ret |-> "Ok", built |-> FALSE,
               value |-> <<>>]

(* tauri_plugin_window_state::StateFlags *)
StateFlags == {"SIZE", "POSITION", "MAXIMIZED", "VISIBLE", "DECORATIONS", "FULLSCREEN"}

(* lib.rs WINDOW_STATE_FLAGS *)
WINDOW_STATE_FLAGS == {"SIZE", "POSITION", "MAXIMIZED", "FULLSCREEN", "DECORATIONS"}

(* Variant of quit_app's flags with every flag of the plugin *)
quit_flags_all == {"SIZE", "POSITION", "MAXIMIZED", "VISIBLE", "DECORATIONS", "FULLSCREEN"}

(* commands.rs quit_app: let flags = ... *)
quit_flags == {"SIZE", "POSITION", "MAXIMIZED", "FULLSCREEN", "DECORATIONS"}

(* What save_window_state keeps of one window under the flags given: the   *)
(* host of this model never maximizes or goes fullscreen, and decorations  *)
(* stay as built.                                                          *)
WindowState(w, flags) ==
    [fl \in flags |->
        CASE fl = "SIZE" -> w.size
          [] fl = "POSITION" -> w.pos
          [] fl = "VISIBLE" -> w.visible
          [] fl = "MAXIMIZED" -> FALSE
          [] fl = "FULLSCREEN" -> FALSE
          [] OTHER -> "as built"]

(* AppHandleExt::save_window_state: the state of every live window, under  *)
(* the flags given, replaces what the store held for its label             *)
save_window_state(ws, st, flags) ==
    [l \in DOMAIN st |->
        IF Lookup(ws, l).some THEN Some(WindowState(Lookup(ws, l).val, flags)) ELSE st[l]]

MainCloseRequested == [name |-> "main-close-requested", arg |-> <<>>]

DesktopLyricsMoved(p) == [name |-> "desktop-lyrics-moved", arg |-> p]

DesktopLyricsResized(sz) == [name |-> "desktop-lyrics-resized", arg |-> sz]

(* WindowEvent values of the host *)
CloseRequested == [kind |-> "CloseRequested", arg |-> <<>>]

Focused(b) == [kind |-> "Focused", arg |-> <<b>>]

Moved(p) == [kind |-> "Moved", arg |-> p]

Resized(sz) == [kind |-> "Resized", arg |-> sz]

(* Variant of handle_desktop_lyrics_event without the check of the label *)
handle_desktop_lyrics_event_any_label(label, event) ==
    CASE event.kind = "Moved" -> <<DesktopLyricsMoved(event.arg)>>
      [] event.kind = "Resized" -> <<DesktopLyricsResized(event.arg)>>
      [] OTHER -> <<>>

(* desktop_lyrics/commands.rs handle_desktop_lyrics_event: what it emits *)
handle_desktop_lyrics_event(label, event) ==
    IF label # "desktop-lyrics" THEN <<>>
    ELSE CASE event.kind = "Moved" -> <<DesktopLyricsMoved(event.arg)>>
           [] event.kind = "Resized" -> <<DesktopLyricsResized(event.arg)>>
           [] OTHER -> <<>>

(* What the run closure leaves behind *)
Handled(ws, st, em, prevented) ==
    [ws |-> ws, st |-> st, em |-> em, prevented |-> prevented]

(* Variant of the run closure that destroys the popup when it loses focus *)
on_window_event_drops_popup(ws, st, label, event, f) ==
    LET em == handle_desktop_lyrics_event(label, event) IN
    IF label = "main" /\ event.kind = "CloseRequested"
    THEN Handled(ws, IF f = 1 THEN st ELSE save_window_state(ws, st, WINDOW_STATE_FLAGS),
                 em \o <<MainCloseRequested>>, TRUE)
    ELSE IF label = "tray-popup" /\ event = Focused(FALSE)
    THEN LET popup == Lookup(ws, "tray-popup") IN
         Handled(IF popup.some /\ f # 1 THEN HostDestroy(ws, popup.val.id) ELSE ws,
                 st, em, FALSE)
    ELSE Handled(ws, st, em, FALSE)

(* Variant of the run closure that leaves the default close in place *)
on_window_event_default_close(ws, st, label, event, f) ==
    LET em == handle_desktop_lyrics_event(label, event) IN
    IF label = "main" /\ event.kind = "CloseRequested"
    THEN Handled(ws, IF f = 1 THEN st ELSE save_window_state(ws, st, WINDOW_STATE_FLAGS),
                 em \o <<MainCloseRequested>>, FALSE)
    ELSE IF label = "tray-popup" /\ event = Focused(FALSE)
    THEN LET popup == Lookup(ws, "tray-popup") IN
         Handled(IF popup.some /\ f # 1 THEN HostHide(ws, popup.val.id) ELSE ws,
                 st, em, FALSE)
    ELSE Handled(ws, st, em, FALSE)

(* lib.rs app.run closure, RunEvent::WindowEvent arm, lines 128-146.       *)
(* f = 1: the host call of the arm fails (save_window_state for main,      *)
(* hide for the popup); both results are dropped.                          *)
on_window_event(ws, st, label, event, f) ==
    LET em == handle_desktop_lyrics_event(label, event) IN
    IF label = "main" /\ event.kind = "CloseRequested"
    THEN Handled(ws, IF f = 1 THEN st ELSE save_window_state(ws, st, WINDOW_STATE_FLAGS),
                 em \o <<MainCloseRequested>>, TRUE)
    ELSE IF label = "tray-popup" /\ event = Focused(FALSE)
    THEN LET popup == Lookup(ws, "tray-popup") IN
         Handled(IF popup.some /\ f # 1 THEN HostHide(ws, popup.val.id) ELSE ws,
                 st, em, FALSE)
    ELSE Handled(ws, st, em, FALSE)

(* The most payload calls a run logs *)
MaxHist == 4

(* The threads of the runtime that run payload commands side by side *)
NumThreads == 3

Threads == 1..NumThreads

NoCall == [op |-> "", label |-> NoLabel, arg |-> None, ret |-> None]

Called(op, label, arg, ret) == [op |-> op, label |-> label, arg |-> arg, ret |-> ret]

(* No payload call has been made and none is running *)
Init ==
    /\ InitHost
    /\ hist = <<>>
    /\ pc = <<>>
    /\ mutex = 0
    /\ tmp = <<>>

(* lib.rs setup closure, lines 89-122: on macOS the cosmetic calls on the  *)
(* main window are unwrapped; then the tray is set up and the popup        *)
(* pre-created, both failures only logged.                                 *)
Setup(cosmetics_ok, tray_ok, f) ==
    /\ phase = "setup"
    /\ IF platform = "macos" /\ ~cosmetics_ok
       THEN /\ phase' = "panicked"
            /\ last' = Ran("setup", NoLabel, "Panic", FALSE, <<>>)
            /\ UNCHANGED <<tray, windows, focus, emitted>>
       ELSE LET out == create_window(platform, windows, focus, tray_popup, f, TRUE) IN
            /\ phase' = "running"
            /\ tray' = tray_ok
            /\ Finish("setup", "tray-popup", out)
    /\ UNCHANGED <<platform, store, cache, Tasks>>

(* commands.rs *)
CreateWindow(label, f, q) ==
    /\ phase = "running"
    /\ LET config == from_label(label) IN
       IF ~config.some
       THEN Finish("create_window", label, Outcome("NoPreset", windows, focus, <<>>, FALSE))
       ELSE Finish("create_window", label,
                   create_window(platform, windows, focus, config.val, f, q))
    /\ UNCHANGED <<Static, cache, Tasks>>

CreateCustomWindow(config, f, q) ==
    /\ phase = "running"
    /\ Finish("create_custom_window", config.label,
              create_window(platform, windows, focus, config, f, q))
    /\ UNCHANGED <<Static, cache, Tasks>>

CreateWindowWithPayload(label, payload, f, q) ==
    /\ phase = "running"
    /\ cache' = payload_set(cache, label, payload)
    /\ LET config == from_label(label) IN
       IF ~config.some
       THEN Finish("create_window_with_payload", label,
                   Outcome("NoPreset", windows, focus, <<>>, FALSE))
       ELSE Finish("create_window_with_payload", label,
                   create_window(platform, windows, focus, config.val, f, q))
    /\ UNCHANGED <<Static, Tasks>>

ShowWindow(label, f) ==
    /\ phase = "running"
    /\ Finish("show_window", label, show_window(windows, focus, label, f))
    /\ UNCHANGED <<Static, cache, Tasks>>

HideWindow(label, f) ==
    /\ phase = "running"
    /\ Finish("hide_window", label, hide_window(windows, focus, label, f))
    /\ UNCHANGED <<Static, cache, Tasks>>

CloseManagedWindow(label, f) ==
    /\ phase = "running"
    /\ Finish("close_managed_window", label, close_window(windows, focus, label, f))
    /\ UNCHANGED <<Static, cache, Tasks>>

(* last.value of a toggle is history kept for the properties: the          *)
(* visibility before the call, whether the previous handler was a          *)
(* successful toggle of the same label, and the visibility before that.    *)
ToggleWindow(label, f, q) ==
    /\ phase = "running"
    /\ LET out == toggle_window(windows, focus, label, f, q)
           chained == last.op = "toggle_window" /\ last.label = label /\ last.ret = "Ok"
       IN  /\ windows' = out.ws
           /\ focus' = out.fo
           /\ emitted' = out.em
           /\ last' = Ran("toggle_window", label, out.ret, out.built,
                          <<Visible(label), chained,
                            IF chained THEN last.value[1] ELSE Visible(label)>>)
    /\ UNCHANGED <<Static, cache, Tasks>>

FocusWindow(label, f, q) ==
    /\ phase = "running"
    /\ Finish("focus_window", label, focus_window(windows, focus, label, f, q))
    /\ UNCHANGED <<Static, cache, Tasks>>

ShowWindowAtPosition(label, xy, f) ==
    /\ phase = "running"
    /\ Finish("show_window_at_position", label,
              show_window_at_position(windows, focus, label, xy[1], xy[2], f))
    /\ UNCHANGED <<Static, cache, Tasks>>

(* A handler that only reads the host state *)
Answer(op, label, ret, value) ==
    /\ last' = Ran(op, label, ret, FALSE, value)
    /\ emitted' = <<>>
    /\ UNCHANGED <<windows, focus>>

(* manager.rs is_window_visible, reached through get_window_state *)
IsWindowVisible(label, f) ==
    /\ phase = "running"
    /\ LET out == is_window_visible(windows, label, f) IN
       Answer("is_window_visible", label, out.ret, <<out.value>>)
    /\ UNCHANGED <<Static, cache, Tasks>>

GetWindowState(label, f) ==
    /\ phase = "running"
    /\ LET out == get_window_state(windows, label, f) IN
       Answer("get_window_state", label, out.ret, out.value)
    /\ UNCHANGED <<Static, cache, Tasks>>

WindowExists(label) ==
    /\ phase = "running"
    /\ Answer("window_exists", label, "Ok", <<window_exists(windows, label)>>)
    /\ UNCHANGED <<Static, cache, Tasks>>

ListWindows ==
    /\ phase = "running"
    /\ Answer("list_windows", NoLabel, "Ok", <<list_windows(windows)>>)
    /\ UNCHANGED <<Static, cache, Tasks>>

GetWindowBounds(label, f) ==
    /\ phase = "running"
    /\ LET out == get_window_bounds(windows, label, f) IN
       Answer("get_window_bounds", label, out.ret, out.value)
    /\ UNCHANGED <<Static, cache, Tasks>>

SetIgnoreCursorEvents(label, ignore, f) ==
    /\ phase = "running"
    /\ Finish("set_ignore_cursor_events", label,
              set_ignore_cursor_events(windows, focus, label, ignore, f))
    /\ UNCHANGED <<Static, cache, Tasks>>

ResizeWindow(label, wh, f) ==
    /\ phase = "running"
    /\ Finish("resize_window", label,
              resize_window(windows, focus, label, wh[1], wh[2], f))
    /\ UNCHANGED <<Static, cache, Tasks>>

(* desktop_lyrics/commands.rs set_window_position *)
SetWindowPosition(label, xy, f) ==
    /\ phase = "running"
    /\ Finish("set_window_position", label,
              set_window_position(windows, focus, label, xy[1], xy[2], f))
    /\ UNCHANGED <<Static, cache, Tasks>>

SetWindowEffectColor(label, color, f) ==
    /\ phase = "running"
    /\ Finish("set_window_effect_color", label,
              set_window_effect_color(platform, windows, focus, label, color, f))
    /\ UNCHANGED <<Static, cache, Tasks>>

(* commands.rs, the payload commands, each one critical section of        *)
(* PAYLOAD_CACHE's lock.  The cache is a process-wide static: the calls    *)
(* do not depend on the window manager.  hist logs the calls in order.     *)
Logged(op, label, arg, ret) ==
    /\ Len(hist) < MaxHist
    /\ hist' = Append(hist, Called(op, label, arg, ret))
    /\ last' = Ran(op, label, "Ok", FALSE, <<ret>>)
    /\ emitted' = <<>>
    /\ UNCHANGED <<Static, windows, focus, pc, mutex, tmp>>

SetWindowPayload(label, payload) ==
    /\ cache' = payload_set(cache, label, payload)
    /\ Logged("set", label, Some(payload), None)

TakeWindowPayload(label) ==
    /\ cache' = payload_take(cache, label).cache
    /\ Logged("take", label, None, payload_take(cache, label).ret)

PeekWindowPayload(label) ==
    /\ cache' = payload_peek(cache, label).cache
    /\ Logged("peek", label, None, payload_peek(cache, label).ret)

ClearPayloads ==
    /\ cache' = payload_clear(cache)
    /\ Logged("clear", NoLabel, None, None)

(* The same calls on threads that run side by side, a step at a time:      *)
(* the call begins, waits for the lock, works on the map, and releases     *)
(* the lock as the guard is dropped at the end of the statement.           *)
Step(t, to) == pc' = [pc EXCEPT ![t] = to]

BeginCall(t, op, label, arg) ==
    /\ pc[t] = "idle"
    /\ Step(t, "lock")
    /\ tmp' = [tmp EXCEPT ![t] = Called(op, label, arg, None)]
    /\ UNCHANGED <<Static, windows, focus, cache, emitted, last, hist, mutex>>

(* Variant of the lock that does not wait for its holder *)
LockWithoutWaiting(t) ==
    /\ pc[t] = "lock"
    /\ mutex' = t
    /\ Step(t, "locked")
    /\ UNCHANGED <<Static, windows, focus, cache, emitted, last, hist, tmp>>

(* PAYLOAD_CACHE.lock() *)
Lock(t) ==
    /\ pc[t] = "lock"
    /\ mutex = 0
    /\ mutex' = t
    /\ Step(t, "locked")
    /\ UNCHANGED <<Static, windows, focus, cache, emitted, last, hist, tmp>>

(* insert, get and clear on the locked map *)
LockedCall(t) ==
    /\ pc[t] = "locked"
    /\ tmp[t].op \in {"set", "peek", "clear"}
    /\ cache' = CASE tmp[t].op = "set" -> payload_set(cache, tmp[t].label, tmp[t].arg.val)
                  [] tmp[t].op = "peek" -> payload_peek(cache, tmp[t].label).cache
                  [] tmp[t].op = "clear" -> payload_clear(cache)
    /\ tmp' = [tmp EXCEPT ![t].ret = IF tmp[t].op = "peek"
                                     THEN payload_peek(cache, tmp[t].label).ret
                                     ELSE None]
    /\ Step(t, "unlock")
    /\ UNCHANGED <<Static, windows, focus, emitted, last, hist, mutex>>

(* remove on the locked map: the entry is found, then unlinked *)
RemoveFind(t) ==
    /\ pc[t] = "locked"
    /\ tmp[t].op = "take"
    /\ tmp' = [tmp EXCEPT ![t].ret = payload_take(cache, tmp[t].label).ret]
    /\ Step(t, "removing")
    /\ UNCHANGED <<Static, windows, focus, cache, emitted, last, hist, mutex>>

RemoveUnlink(t) ==
    /\ pc[t] = "removing"
    /\ cache' = payload_take(cache, tmp[t].label).cache
    /\ Step(t, "unlock")
    /\ UNCHANGED <<Static, windows, focus, emitted, last, hist, mutex, tmp>>

(* The guard is dropped and the call returns *)
Unlock(t) ==
    /\ pc[t] = "unlock"
    /\ mutex' = 0
    /\ Step(t, "done")
    /\ hist' = Append(hist, tmp[t])
    /\ last' = Ran(tmp[t].op, tmp[t].label, "Ok", FALSE, <<tmp[t].ret>>)
    /\ UNCHANGED <<Static, windows, focus, cache, emitted, tmp>>

(* tray.rs lines 76-133 alone: the position show_tray_popup computes from  *)
(* the anchor and from what the host answers, kept with its inputs; one    *)
(* computation a run                                                       *)
PlacePopup(rect, popup, scale, monitors) ==
    /\ last.op = "init"
    /\ last' = Ran("popup_position", "tray-popup", "Ok", FALSE,
                   <<rect, popup, scale, monitors,
                     PopupPosition(platform, tray_popup, rect, popup, scale, monitors)>>)
    /\ UNCHANGED <<Static, windows, focus, cache, emitted, Tasks>>

(* Variant of the left click that toggles the main window *)
TrayLeftClickToggles(f) ==
    /\ phase = "running"
    /\ tray
    /\ Finish("tray_left_click", "main", toggle_window(windows, focus, "main", f, TRUE))
    /\ UNCHANGED <<Static, cache, Tasks>>

(* tray.rs on_tray_icon_event: the handler logs a failure and returns *)
TrayLeftClick(f) ==
    /\ phase = "running"
    /\ tray
    /\ Finish("tray_left_click", "main", show_window(windows, focus, "main", f))
    /\ UNCHANGED <<Static, cache, Tasks>>

TrayRightClick(rect, env) ==
    /\ phase = "running"
    /\ tray
    /\ Finish("tray_right_click", "tray-popup",
              show_tray_popup(platform, windows, focus, rect, env))
    /\ UNCHANGED <<Static, cache, Tasks>>

(* The user minimizes a window: what is_minimized() reports afterwards *)
HostMinimize(label) ==
    /\ phase = "running"
    /\ Exists(label)
    /\ ~Lookup(windows, label).val.minimized
    /\ windows' = Update(windows, Lookup(windows, label).val.id, "minimized", TRUE)
    /\ focus' = FocusAfterDestroy(focus, Lookup(windows, label).val.id)
    /\ emitted' = <<>>
    /\ last' = Ran("host_minimize", label, "Ok", FALSE, <<>>)
    /\ UNCHANGED <<Static, cache, Tasks>>

(* The create commands are async fns: the runtime runs each call as a     *)
(* task of its own on one of its threads, and manager.rs takes no lock.   *)
(* A call is the lookup of line 22 and then either the focus calls of     *)
(* lines 24-29 or, down to line 72, the build; other calls run between.   *)
CreateCall(t, config) ==
    /\ phase = "running"
    /\ pc[t] = "idle"
    /\ tmp' = [tmp EXCEPT ![t] = Called("create", config.label, Some(config), None)]
    /\ Step(t, "check")
    /\ UNCHANGED <<Static, windows, focus, cache, emitted, last, hist, mutex>>

(* manager.rs lines 21-22: single_instance and get_webview_window *)
CreateCheck(t) ==
    /\ pc[t] = "check"
    /\ LET config == tmp[t].arg.val IN
       Step(t, IF config.single_instance /\ Lookup(windows, config.label).some
               THEN "focus" ELSE "build")
    /\ UNCHANGED <<Static, windows, focus, cache, emitted, last, hist, mutex, tmp>>

(* The call of thread t returns *)
CreateReturn(t, out) ==
    /\ windows' = out.ws
    /\ focus' = out.fo
    /\ emitted' = out.em
    /\ last' = Ran("create", tmp[t].label, out.ret, out.built, <<t>>)
    /\ hist' = Append(hist, [tmp[t] EXCEPT !.ret = Some(out.ret)])
    /\ Step(t, "done")
    /\ UNCHANGED <<Static, cache, mutex, tmp>>

(* manager.rs lines 23-29, on the handle the lookup returned *)
CreateFocus(t) ==
    /\ pc[t] = "focus"
    /\ Lookup(windows, tmp[t].label).some
    /\ CreateReturn(t, focus_existing(windows, focus, Lookup(windows, tmp[t].label).val, 0, TRUE))

(* manager.rs lines 33-105 *)
CreateBuild(t) ==
    /\ pc[t] = "build"
    /\ CreateReturn(t, build_new(platform, windows, focus, tmp[t].arg.val, 0))

(* What the host has done to a window by the time it reports the event *)
HostBefore(ws, label, event) ==
    LET w == Lookup(ws, label) IN
    IF ~w.some THEN ws
    ELSE CASE event.kind = "Moved" -> HostSetPosition(ws, w.val.id, event.arg)
           [] event.kind = "Resized" -> Update(ws, w.val.id, "size", event.arg)
           [] OTHER -> ws

FocusBefore(ws, fo, label, event) ==
    LET w == Lookup(ws, label) IN
    IF ~w.some \/ event.kind # "Focused" THEN fo
    ELSE IF event.arg[1] THEN w.val.id ELSE FocusAfterDestroy(fo, w.val.id)

(* The host delivers a window event to the run closure; a close request    *)
(* the closure did not prevent destroys the window.  last.value keeps the  *)
(* event, f and whether the window was visible before.                     *)
OnWindowEvent(label, event, f) ==
    /\ phase = "running"
    /\ LET w == Lookup(windows, label)
           fo == FocusBefore(windows, focus, label, event)
           out == on_window_event(HostBefore(windows, label, event), store, label, event, f)
           closes == event.kind = "CloseRequested" /\ ~out.prevented /\ w.some
       IN  /\ windows' = IF closes THEN HostDestroy(out.ws, w.val.id) ELSE out.ws
           /\ focus' = IF closes THEN FocusAfterDestroy(fo, w.val.id) ELSE fo
           /\ store' = out.st
           /\ emitted' = out.em
           /\ last' = Ran("window_event", label, "Ok", FALSE,
                          <<event, f, IsVisible(windows, label)>>)
    /\ UNCHANGED <<platform, phase, tray, cache, Tasks>>

(* commands.rs quit_app: f = 1 save_window_state fails, which is dropped;  *)
(* exit(0) ends the process, nothing runs afterwards                       *)
QuitApp(f) ==
    /\ phase = "running"
    /\ store' = IF f = 1 THEN store ELSE save_window_state(windows, store, quit_flags)
    /\ phase' = "exited"
    /\ emitted' = <<>>
    /\ last' = Ran("quit_app", NoLabel, "Ok", FALSE, <<f>>)
    /\ UNCHANGED <<platform, tray, windows, focus, cache, Tasks>>

Next ==
    \/ \E c \in BOOLEAN, t \in {TRUE}, f \in {0, 5, 9} : Setup(c, t, f)
    \/ \E l \in Labels, fq \in FailQuery({1, 2, 3, 5, 9}) :
          CreateWindow(l, fq[1], fq[2])
    \/ \E c \in CustomConfigs, fq \in {<<0, TRUE>>, <<1, TRUE>>, <<4, TRUE>>, <<5, TRUE>>} :
          CreateCustomWindow(c, fq[1], fq[2])
    \/ \E l \in {"tray-popup"}, p \in {"p1"}, fq \in FailQuery({5}) :
          CreateWindowWithPayload(l, p, fq[1], fq[2])
    \/ \E l \in Labels, f \in 0..2 : ShowWindow(l, f)
    \/ \E l \in Labels, f \in 0..1 : HideWindow(l, f)
    \/ \E l \in Labels, f \in 0..1 : CloseManagedWindow(l, f)
    \/ \E l \in Labels, fq \in FailQuery(1..4) : ToggleWindow(l, fq[1], fq[2])
    \/ \E l \in Labels, fq \in FailQuery(1..3) : FocusWindow(l, fq[1], fq[2])
    \/ \E l \in {"tray-popup"}, xy \in ShowAtCoords, f \in 0..3 :
          ShowWindowAtPosition(l, xy, f)
    \/ \E f \in 0..2 : TrayLeftClick(f)
    \/ \E r \in TrayRects, e \in TrayEnvs : TrayRightClick(r, e)
    \/ \E l \in {"main"} : HostMinimize(l)

Spec == Init /\ [][Next]_vars

(* The label-addressed commands on a label that comes and goes            *)
(* ("tray-popup": built, destroyed by close) and one that never has a      *)
(* window ("note": no preset, and the host refuses to build it)            *)
OpsLabels == {"tray-popup", "note"}

OpsConfigs == {c \in CustomConfigs : c.visible /\ c.single_instance /\ c.parent_label # NoLabel}

ResizeTo == {<<320, 240>>}

NextOps ==
    \/ \E f \in {0} : Setup(TRUE, TRUE, f)
    \/ \E l \in OpsLabels, f \in {0, 5} : CreateWindow(l, f, TRUE)
    \/ \E c \in OpsConfigs, f \in {5} : CreateCustomWindow(c, f, TRUE)
    \/ \E l \in OpsLabels, p \in {"p1"} : CreateWindowWithPayload(l, p, 0, TRUE)
    \/ \E l \in OpsLabels, f \in 0..1 : ShowWindow(l, f)
    \/ \E l \in OpsLabels, f \in 0..1 : HideWindow(l, f)
    \/ \E l \in OpsLabels, f \in 0..1 : CloseManagedWindow(l, f)
    \/ \E l \in OpsLabels, f \in 0..1 : ToggleWindow(l, f, TRUE)
    \/ \E l \in OpsLabels, f \in 0..1 : FocusWindow(l, f, TRUE)
    \/ \E l \in OpsLabels, xy \in ShowAtCoords, f \in 0..1 : ShowWindowAtPosition(l, xy, f)
    \/ \E l \in OpsLabels, f \in 0..1 : IsWindowVisible(l, f)
    \/ \E l \in OpsLabels, f \in 0..1 : GetWindowState(l, f)
    \/ \E l \in OpsLabels : WindowExists(l)
    \/ ListWindows
    \/ \E l \in OpsLabels, f \in 0..1 : GetWindowBounds(l, f)
    \/ \E l \in OpsLabels, f \in 0..1 : SetIgnoreCursorEvents(l, TRUE, f)
    \/ \E l \in OpsLabels, wh \in ResizeTo, f \in 0..1 : ResizeWindow(l, wh, f)
    \/ \E l \in OpsLabels, xy \in ShowAtCoords, f \in 0..1 : SetWindowPosition(l, xy, f)
    \/ \E l \in OpsLabels, f \in 0..1 : SetWindowEffectColor(l, <<0, 0, 0, 0>>, f)

SpecOps == Init /\ [][NextOps]_vars

(* The payload cache alone, one call at a time *)
PayloadLabels == {"tray-popup", "note"}

(* The cache does not depend on the platform; every thread of the         *)
(* runtime is idle                                                         *)
InitPayload ==
    /\ InitHost
    /\ platform = "windows"
    /\ hist = <<>>
    /\ pc = [t \in Threads |-> "idle"]
    /\ mutex = 0
    /\ tmp = [t \in Threads |-> NoCall]

NextPayload ==
    \/ \E l \in PayloadLabels, p \in Payloads : SetWindowPayload(l, p)
    \/ \E l \in PayloadLabels : TakeWindowPayload(l)
    \/ \E l \in PayloadLabels : PeekWindowPayload(l)
    \/ ClearPayloads

SpecPayload == InitPayload /\ [][NextPayload]_vars

(* The payload cache under calls that run side by side, one call a thread *)
NextConc ==
    \/ \E t \in Threads : BeginCall(t, "set", "tray-popup", Some("p1"))
    \/ \E t \in Threads, op \in {"take", "peek"} : BeginCall(t, op, "tray-popup", None)
    \/ \E t \in Threads : BeginCall(t, "clear", NoLabel, None)
    \/ \E t \in Threads : Lock(t)
    \/ \E t \in Threads : LockedCall(t)
    \/ \E t \in Threads : RemoveFind(t)
    \/ \E t \in Threads : RemoveUnlink(t)
    \/ \E t \in Threads : Unlock(t)

SpecConc == InitPayload /\ [][NextConc]_vars

(* Creates that run side by side, one call a thread, for two labels; the  *)
(* popup may be there from startup, the note is not                       *)
RaceConfigs ==
    {tray_popup} \cup
    { c \in CustomConfigs : c.single_instance /\ c.visible /\ c.parent_label = NoLabel }

NextRace ==
    \/ \E f \in {0, 5} : Setup(TRUE, TRUE, f)
    \/ \E t \in Threads, c \in RaceConfigs : CreateCall(t, c)
    \/ \E t \in Threads : CreateCheck(t)
    \/ \E t \in Threads : CreateFocus(t)
    \/ \E t \in Threads : CreateBuild(t)

SpecRace == InitPayload /\ [][NextRace]_vars

(* The positioner alone, on every anchor, scale factor and layout *)
NextPopup ==
    \E r \in AnchorRects, popup \in BOOLEAN,
       sc \in {None} \cup {Some(k) : k \in ScaleFactors},
       ms \in {None} \cup {Some(l) : l \in MonitorLayouts} :
        PlacePopup(r, popup, sc, ms)

SpecPopup == Init /\ [][NextPopup]_vars

(* The positioner on monitors that are too small or that overlap, and the  *)
(* right click that shows the popup where the positioner says              *)
ClampEnvs ==
    { TrayEnv(0, TRUE, sc, ms, 0) :
        sc \in {None, Some(Eighths(1)), Some(12)},
        ms \in {None, Some(Monitors), Some(MonitorsSmall)} }

(* Clicks on anchors that no monitor holds, and on some that one does *)
ClickRects ==
    { PhysicalRect(1300, 0, 24, 24), PhysicalRect(-100, 600, 24, 24),
      PhysicalRect(700, 580, 24, 24), LogicalRect(560, 400, 24, 24) }

NextClamp ==
    \/ \E r \in ClampRects, popup \in BOOLEAN,
          sc \in {None} \cup {Some(k) : k \in ScaleFactors},
          ms \in {None} \cup {Some(l) : l \in ClampLayouts} :
           PlacePopup(r, popup, sc, ms)
    \/ Setup(TRUE, TRUE, 0)
    \/ \E r \in ClickRects, env \in ClampEnvs : TrayRightClick(r, env)

SpecClamp == Init /\ [][NextClamp]_vars

(* The run closure's window events and quit, beside the commands and tray  *)
(* clicks that show, hide and destroy the windows the events are about     *)
WindowEvents == {CloseRequested, Focused(FALSE), Focused(TRUE), Moved(<<10, 20>>)}

EventConfigs == { c \in CustomConfigs : c.visible /\ c.single_instance /\ c.parent_label = NoLabel }

NextEvents ==
    \/ \E c \in BOOLEAN, f \in {0, 5} : Setup(c, TRUE, f)
    \/ \E l \in Labels, e \in {CloseRequested, Focused(FALSE)}, f \in 0..1 :
          OnWindowEvent(l, e, f)
    \/ \E e \in WindowEvents : OnWindowEvent("note", e, 0)
    \/ \E f \in 0..1 : QuitApp(f)
    \/ \E c \in EventConfigs : CreateCustomWindow(c, 0, TRUE)
    \/ \E l \in {"main"} : ShowWindow(l, 0)
    \/ \E l \in {"main"} : HideWindow(l, 0)
    \/ \E l \in {"tray-popup"} : CloseManagedWindow(l, 0)
    \/ TrayLeftClick(0)
    \/ \E r \in TrayRects, env \in {e \in TrayEnvs : e.fcreate = 0 /\ e.fshow = 0} :
          TrayRightClick(r, env)

SpecEvents == Init /\ [][NextEvents]_vars

(* The commands that show a window, under every failure of their host     *)
(* calls and every answer to is_minimized, on windows the user minimizes   *)
(* and the commands hide                                                   *)
ShowLabels == {"main", "tray-popup"}

ShowPositions == {<<540, 242>>, <<-30, 16>>}

UnminimizeFails == {<<2, FALSE>>, <<3, FALSE>>}

NextShow ==
    \/ \E f \in {0, 5} : Setup(TRUE, TRUE, f)
    \/ \E l \in ShowLabels, xy \in ShowPositions, f \in 0..3 : ShowWindowAtPosition(l, xy, f)
    \/ \E l \in ShowLabels, fq \in FailQuery(1..4) \cup UnminimizeFails :
          ToggleWindow(l, fq[1], fq[2])
    \/ \E l \in ShowLabels, fq \in FailQuery(1..3) \cup UnminimizeFails :
          FocusWindow(l, fq[1], fq[2])
    \/ \E l \in ShowLabels, fq \in FailQuery(1..3) \cup UnminimizeFails :
          CreateWindow(l, fq[1], fq[2])
    \/ \E l \in ShowLabels : HideWindow(l, 0)
    \/ \E l \in ShowLabels : HostMinimize(l)
    \/ \E f \in 0..2 : TrayLeftClick(f)

SpecShow == Init /\ [][NextShow]_vars

(* The run closure on every kind of event, for the windows it knows and    *)
(* for windows it does not                                                 *)
RouterLabels == {"desktop-lyrics"}

RouterCases ==
    { <<"desktop-lyrics", e>> :
        e \in {CloseRequested, Focused(FALSE), Moved(<<10, 20>>), Resized(<<640, 96>>)} }
    \cup { <<"main", e>> : e \in {CloseRequested, Focused(FALSE), Moved(<<10, 20>>)} }
    \cup { <<"tray-popup", e>> : e \in {CloseRequested, Focused(FALSE)} }

NextRouter ==
    \/ Setup(TRUE, TRUE, 0)
    \/ \E le \in RouterCases : OnWindowEvent(le[1], le[2], 0)
    \/ OnWindowEvent("main", CloseRequested, 1)
    \/ \E l \in RouterLabels : CreateWindow(l, 0, TRUE)
    \/ CreateWindowWithPayload("tray-popup", "p1", 0, TRUE)

SpecRouter == Init /\ [][NextRouter]_vars

(* Every command and every event of the run closure on the main window,    *)
(* quit, and beside them a window created from a custom config             *)
CloseConfigs == { c \in CustomConfigs : c.parent_label = NoLabel }

NextClose ==
    \/ Setup(TRUE, TRUE, 0)
    \/ \E fq \in FailQuery(1..3) : CreateWindow("main", fq[1], fq[2])
    \/ \E c \in CloseConfigs : CreateCustomWindow(c, 0, TRUE)
    \/ \E f \in 0..1 : ShowWindow("main", f)
    \/ \E f \in 0..1 : HideWindow("main", f)
    \/ \E l \in {"main", "note"}, f \in 0..1 : CloseManagedWindow(l, f)
    \/ \E fq \in FailQuery(1..4) : ToggleWindow("main", fq[1], fq[2])
    \/ \E fq \in FailQuery(1..3) : FocusWindow("main", fq[1], fq[2])
    \/ \E xy \in ShowAtCoords, f \in 0..3 : ShowWindowAtPosition("main", xy, f)
    \/ \E wh \in ResizeTo, f \in 0..1 : ResizeWindow("main", wh, f)
    \/ \E e \in {CloseRequested, Focused(FALSE), Moved(<<540, 242>>), Resized(<<320, 240>>)},
          f \in 0..1 : OnWindowEvent("main", e, f)
    \/ OnWindowEvent("note", CloseRequested, 0)
    \/ QuitApp(0)

SpecClose == Init /\ [][NextClose]_vars

(* Right clicks on the tray, on a popup that was pre-created or not,       *)
(* resized, moved, hidden, destroyed                                       *)
PopupSizes == {<<400, 500>>}

NextTray ==
    \/ \E f \in {0, 5} : Setup(TRUE, TRUE, f)
    \/ \E r \in TrayRects, env \in TrayEnvs : TrayRightClick(r, env)
    \/ \E wh \in PopupSizes : ResizeWindow("tray-popup", wh, 0)
    \/ \E xy \in ShowPositions : ShowWindowAtPosition("tray-popup", xy, 0)
    \/ HideWindow("tray-popup", 0)
    \/ CloseManagedWindow("tray-popup", 0)
    \/ OnWindowEvent("tray-popup", Focused(FALSE), 0)
    \/ TrayLeftClick(0)

SpecTray == Init /\ [][NextTray]_vars

(* Startup under every outcome of its steps, then a few commands and tray  *)
(* clicks on what startup left                                             *)
StartupFails == {0, 5, 9}

StartupLabels == {"main", "tray-popup"}

NextStartup ==
    \/ \E c \in BOOLEAN, t \in BOOLEAN, f \in StartupFails : Setup(c, t, f)
    \/ \E l \in StartupLabels : ShowWindow(l, 0)
    \/ \E l \in StartupLabels : HideWindow(l, 0)
    \/ \E l \in StartupLabels : CloseManagedWindow(l, 0)
    \/ \E l \in StartupLabels, f \in StartupFails : CreateWindow(l, f, TRUE)
    \/ TrayLeftClick(0)
    \/ \E r \in TrayRects, env \in TrayEnvs : TrayRightClick(r, env)

SpecStartup == Init /\ [][NextStartup]_vars

(* The preset catalog alone: two lookups a run, the second keeping the     *)
(* first beside it                                                         *)
PresetLabels == {"main", "mini-player", "desktop-lyrics", "settings", "about", "tray-popup"}

ProbeLabels ==
    PresetLabels \cup {"", "Main", "MAIN", "main ", "mini_player", "miniplayer", "lyrics",
                       "desktop_lyrics", "tray", "popup", "note", "unknown-label"}

LookupPreset(label) ==
    /\ \/ last.op = "init"
       \/ last.op = "from_label" /\ Len(last.value) = 1
    /\ last' = Ran("from_label", label, "Ok", FALSE,
                   IF last.op = "init" THEN <<from_label(label)>>
                   ELSE <<from_label(label), last.label, last.value[1]>>)
    /\ UNCHANGED <<Static, windows, focus, cache, emitted, Tasks>>

NextPresets == \E l \in ProbeLabels : LookupPreset(l)

SpecPresets == Init /\ [][NextPresets]_vars

(* The three create commands under every failure of create_window's host  *)
(* calls, on presets, on configs with a parent and on configs that ask    *)
(* for every cosmetic step; close destroys what was built                 *)
CosmeticConfigs ==
    { [label |-> "note", width |-> 300, height |-> 200,
       resizable |-> TRUE, decorations |-> FALSE, transparent |-> tr,
       always_on_top |-> FALSE, skip_taskbar |-> FALSE, center |-> FALSE,
       visible |-> TRUE, single_instance |-> FALSE, closeable_to_tray |-> FALSE,
       use_overlay_titlebar |-> ot, traffic_lights_inset |-> ti,
       window_effect |-> fx, shadow |-> FALSE, parent_label |-> NoLabel] :
      tr \in BOOLEAN, ot \in BOOLEAN, ti \in BOOLEAN, fx \in {"acrylic", "blur"} }

CustomFails == {0, 1, 4, 5}

CosmeticFails == {0, 5, 6, 7, 8, 9}

NextCreate ==
    \/ \E c \in BOOLEAN, f \in {0, 5} : Setup(c, TRUE, f)
    \/ \E l \in Labels, f \in CosmeticFails : CreateWindow(l, f, TRUE)
    \/ \E c \in CustomConfigs, f \in CustomFails : CreateCustomWindow(c, f, TRUE)
    \/ \E c \in CosmeticConfigs, f \in CosmeticFails : CreateCustomWindow(c, f, TRUE)
    \/ \E l \in {"tray-popup", "note"}, f \in {0, 5} :
          CreateWindowWithPayload(l, "p1", f, TRUE)
    \/ \E l \in {"tray-popup", "note"} : CloseManagedWindow(l, 0)

SpecCreate == Init /\ [][NextCreate]_vars

----------------------------------------------------------------------------
(* Properties of the window manager *)

Live(l) == {w \in windows : w.label = l}

Preset(l) == from_label(l).val

TrayCloseable(l) == from_label(l).some /\ from_label(l).val.closeable_to_tray

TrayCloseableLabels == {l \in Labels : TrayCloseable(l)}

CreateOps == {"create_window", "create_custom_window", "create_window_with_payload"}

SingleInstanceCustom == {c \in CustomConfigs : c.single_instance}

(* C1: each label has at most one live window in every reachable state;    *)
(* and when a create for L has just succeeded, a second create for L with  *)
(* single_instance set, whose host calls succeed, returns success, builds  *)
(* no handle and leaves exactly one live window for L.                     *)
C1_AtMostOne == \A l \in Labels : Cardinality(Live(l)) <= 1

C1_SecondCreate ==
    \A l \in Labels :
        (/\ last.op \in CreateOps /\ last.label = l /\ last.ret = "Ok"
         /\ last'.op \in CreateOps /\ last'.label = l
         /\ \E q \in BOOLEAN :
               \/ /\ last'.op = "create_window"
                  /\ from_label(l).some /\ Preset(l).single_instance
                  /\ CreateWindow(l, 0, q)
               \/ /\ last'.op = "create_window_with_payload"
                  /\ from_label(l).some /\ Preset(l).single_instance
                  /\ CreateWindowWithPayload(l, "p1", 0, q)
               \/ /\ last'.op = "create_custom_window"
                  /\ \E c \in SingleInstanceCustom :
                        c.label = l /\ CreateCustomWindow(c, 0, q))
        => /\ last'.ret = "Ok"
           /\ ~last'.built
           /\ Cardinality({w \in windows' : w.label = l}) = 1

C1_Singleton == [](C1_AtMostOne) /\ [][C1_SecondCreate]_vars

C1_Witness ==
    /\ last.op = "create_custom_window" /\ last.label = "note"
    /\ last.ret = "Ok" /\ ~last.built
    /\ Cardinality(Live("note")) = 1

(* The configurations create can be called with for label l when           *)
(* single_instance is set                                                  *)
SingleInstanceConfigs(l) ==
    (IF from_label(l).some /\ Preset(l).single_instance THEN {Preset(l)} ELSE {})
    \cup {c \in SingleInstanceCustom : c.label = l}

HostFails == {<<0, TRUE>>, <<0, FALSE>>, <<1, TRUE>>, <<2, TRUE>>, <<3, TRUE>>}

(* C2: for a label with a live window, create with single_instance set is  *)
(* focus: a create step leaves the host state focus would leave, returns   *)
(* what focus would return and emits what focus would emit, which for      *)
(* "main" is main-window-visibility(true) on success.                      *)
C2_CreateIsFocus ==
    \A l \in Labels :
        (Exists(l) /\ last'.label = l /\ last'.op \in CreateOps) =>
            \A c \in SingleInstanceConfigs(l) : \A fq \in HostFails :
                (\/ /\ last'.op = "create_window"
                    /\ c = Preset(l)
                    /\ CreateWindow(l, fq[1], fq[2])
                 \/ /\ last'.op = "create_window_with_payload"
                    /\ c = Preset(l)
                    /\ CreateWindowWithPayload(l, "p1", fq[1], fq[2])
                 \/ /\ last'.op = "create_custom_window"
                    /\ CreateCustomWindow(c, fq[1], fq[2])) =>
                    LET focused == focus_window(windows, focus, l, fq[1], fq[2]) IN
                    /\ windows' = focused.ws
                    /\ focus' = focused.fo
                    /\ last'.ret = focused.ret
                    /\ emitted' = focused.em

C2_SameAsFocus == [][C2_CreateIsFocus]_vars

(* What holds of create on a live label: the host state and the return     *)
(* value are those of focus, whichever host call fails; the notifications  *)
(* are not: create emits none.                                             *)
SameAsFocusButSilent ==
    \A l \in Labels : \A c \in SingleInstanceConfigs(l) : \A fq \in HostFails :
        Exists(l) =>
            LET created == create_window(platform, windows, focus, c, fq[1], fq[2])
                focused == focus_window(windows, focus, l, fq[1], fq[2])
            IN  /\ created = [focused EXCEPT !.em = <<>>]
                /\ focused.em = IF l = "main" /\ focused.ret = "Ok"
                                THEN <<MainWindowVisibility(TRUE)>>
                                ELSE <<>>

LabelOps == {"show_window", "hide_window", "close_managed_window", "toggle_window",
             "focus_window"}

(* C4: the soft-close state machine.  A tray-closeable window is never     *)
(* destroyed: close keeps the handle and hides it, and a later show,       *)
(* toggle or focus whose host calls succeed returns success with the same  *)
(* handle visible.  Close of any other window destroys it, and from then   *)
(* on show, hide, toggle, focus and close of the label return NotFound and *)
(* leave it absent; the label gets a window again only by a create that    *)
(* builds a handle (a create command, or the create_window call of the     *)
(* startup pre-creation and of the tray right-click).                      *)
C4_SoftClose ==
    /\ \A w \in windows :
          w.label \in TrayCloseableLabels => \E w2 \in windows' : w2.id = w.id
    /\ \A w2 \in windows' :
          (\A w \in windows : w.label # w2.label) =>
              /\ last'.built
              /\ last'.label = w2.label
              /\ last'.op \in CreateOps \cup {"setup", "tray_right_click"}
    /\ (last'.op \in LabelOps /\ last'.label \in Labels) =>
          LET l == last'.label IN
          IF ~Exists(l)
          THEN last'.ret = "NotFound" /\ ~Lookup(windows', l).some
          ELSE /\ (last'.op = "close_managed_window" /\ CloseManagedWindow(l, 0)) =>
                    /\ last'.ret = "Ok"
                    /\ IF l \in TrayCloseableLabels
                       THEN Lookup(windows', l).some /\ ~IsVisible(windows', l)
                       ELSE ~Lookup(windows', l).some
               /\ (l \in TrayCloseableLabels /\ ~Visible(l) /\
                     \/ last'.op = "show_window" /\ ShowWindow(l, 0)
                     \/ /\ last'.op = "toggle_window"
                        /\ \E q \in BOOLEAN : ToggleWindow(l, 0, q)
                     \/ /\ last'.op = "focus_window"
                        /\ \E q \in BOOLEAN : FocusWindow(l, 0, q)) =>
                     /\ last'.ret = "Ok"
                     /\ IsVisible(windows', l)
                     /\ Lookup(windows', l).val.id = Lookup(windows, l).val.id

C4_SoftCloseStateMachine == [][C4_SoftClose]_vars

C4_Witness ==
    /\ last.op = "close_managed_window" /\ last.label = "tray-popup" /\ last.ret = "Ok"
    /\ ~Exists("tray-popup")

NotFoundOps ==
    LabelOps \cup {"is_window_visible", "show_window_at_position",
                   "set_ignore_cursor_events", "resize_window", "set_window_position",
                   "set_window_effect_color", "get_window_bounds"}

(* C5: for a label with no live window, show, hide, close, toggle, focus,  *)
(* is_visible, show_at, set_ignore_cursor_events, resize, set_position,    *)
(* set_effect_color and get_bounds return NotFound whichever host call     *)
(* would fail, build no handle, leave every window, the focus and the      *)
(* payload cache as they were and emit nothing; create, get_state and      *)
(* window_exists on the label never return NotFound.                       *)
C5_Absent ==
    \A l \in Labels :
        (~Exists(l) /\ last'.label = l) =>
            /\ last'.op \in NotFoundOps =>
                  /\ last'.ret = "NotFound"
                  /\ ~last'.built
                  /\ windows' = windows
                  /\ focus' = focus
                  /\ cache' = cache
                  /\ emitted' = <<>>
            /\ last'.op \in CreateOps \cup {"get_window_state", "window_exists"} =>
                  last'.ret # "NotFound"
            /\ last'.op = "get_window_state" =>
                  last'.ret = "Ok" /\ last'.value = <<FALSE, FALSE>>
            /\ last'.op = "window_exists" => last'.value = <<FALSE>>

C5_NotFound == [][C5_Absent]_vars

C5_Witness ==
    /\ last.op = "resize_window" /\ last.label = "tray-popup" /\ last.ret = "NotFound"
    /\ ~Exists("tray-popup")
    /\ emitted = <<>>

(* C6: after two consecutive successful toggles of a label, nothing run    *)
(* in between, the window has the visibility it had before the first.      *)
C6_ToggleTwice ==
    (last.op = "toggle_window" /\ last.ret = "Ok" /\ last.value[2]) =>
        Visible(last.label) = last.value[3]

C6_Witness ==
    /\ last.op = "toggle_window" /\ last.label = "note" /\ last.ret = "Ok"
    /\ last.value[2] /\ ~last.value[3]
    /\ ~Visible("note")

IsMainVisibility(n) == n.name = "main-window-visibility"

MainVisibilityEmitted == { i \in 1..Len(emitted) : IsMainVisibility(emitted[i]) }

(* C7: a successful show, hide, toggle, focus or close of "main" emits     *)
(* main-window-visibility exactly once, with the window's visibility after *)
(* the call: true after show, focus and toggle from hidden, false after    *)
(* hide, close and toggle from visible.  The same operations on any other  *)
(* label, and every handler that fails, emit no main-window-visibility.    *)
C7_MainVisibilityOnce ==
    /\ (last.op \in LabelOps /\ last.label = "main" /\ last.ret = "Ok") =>
          /\ Cardinality(MainVisibilityEmitted) = 1
          /\ emitted = <<MainWindowVisibility(Visible("main"))>>
          /\ last.op \in {"show_window", "focus_window"} => Visible("main")
          /\ last.op \in {"hide_window", "close_managed_window"} => ~Visible("main")
          /\ last.op = "toggle_window" => Visible("main") = ~last.value[1]
    /\ ((last.op \in LabelOps /\ last.label # "main") \/ last.ret # "Ok") =>
          MainVisibilityEmitted = {}

C7_Witness ==
    /\ last.op = "toggle_window" /\ last.label = "main" /\ last.ret = "Ok"
    /\ last.value[1]
    /\ emitted = <<MainWindowVisibility(FALSE)>>

----------------------------------------------------------------------------
(* Properties of the payload cache *)

RECURSIVE Pending(_, _)
(* What the log h leaves for label l: the value of the latest set of l     *)
(* that no take of l and no clear follows                                  *)
Pending(h, l) ==
    IF h = <<>> THEN None
    ELSE LET e == h[Len(h)] IN
         IF e.op = "set" /\ e.label = l THEN e.arg
         ELSE IF (e.op = "take" /\ e.label = l) \/ e.op = "clear" THEN None
         ELSE Pending(SubSeq(h, 1, Len(h) - 1), l)

Before(h, i) == SubSeq(h, 1, i - 1)

(* Every take of the log returned what the calls before it left *)
OneShot(h) ==
    \A i \in 1..Len(h) :
        h[i].op = "take" => h[i].ret = Pending(Before(h, i), h[i].label)

(* C8: after any sequence of set, take, peek and clear, take(L) returns    *)
(* the value of the most recent set(L, v) not followed by a take(L) or a   *)
(* clear, and nothing otherwise: right after set(L, v) it returns v, a     *)
(* second take right after it returns nothing, and with no set before it   *)
(* returns nothing; the call never fails.                                  *)
C8_TakeOneShot ==
    /\ OneShot(hist)
    /\ \A l \in PayloadLabels : cache[l] = Pending(hist, l)
    /\ \A i \in 1..Len(hist) :
          hist[i].op = "take" =>
              /\ (i > 1 /\ hist[i - 1].op = "set" /\ hist[i - 1].label = hist[i].label) =>
                    hist[i].ret = hist[i - 1].arg
              /\ (i > 1 /\ hist[i - 1].op = "take" /\ hist[i - 1].label = hist[i].label) =>
                    hist[i].ret = None
              /\ (\A j \in 1..(i - 1) : ~(hist[j].op = "set" /\ hist[j].label = hist[i].label)) =>
                    hist[i].ret = None
    /\ last.op = "take" => last.ret = "Ok" /\ last.value = <<hist[Len(hist)].ret>>

C8_Witness ==
    /\ Len(hist) = 4
    /\ hist[1] = Called("set", "note", Some("p1"), None)
    /\ hist[2] = Called("set", "note", Some("p2"), None)
    /\ hist[3] = Called("take", "note", None, Some("p2"))
    /\ hist[4] = Called("take", "note", None, None)

TakesReturning(h, v) == {i \in 1..Len(h) : h[i].op = "take" /\ h[i].ret = v}

CallsBegun == {t \in Threads : pc[t] # "idle"}

(* The run is one set followed by takes: the set returned first and every  *)
(* other call begun is a take of the same label                            *)
OneSetThenTakes ==
    /\ Len(hist) >= 1
    /\ hist[1].op = "set"
    /\ \A t \in CallsBegun :
          (pc[t] = "done" /\ tmp[t] = hist[1]) \/
          (tmp[t].op = "take" /\ tmp[t].label = hist[1].label)
    /\ Cardinality({t \in CallsBegun : tmp[t].op = "set"}) = 1

(* C9: under every interleaving of the threads, the calls take effect one  *)
(* at a time in the order they hold the lock: at most one thread is inside *)
(* the lock, and every take returns what the calls that held the lock      *)
(* before it left, whatever set, take, peek and clear ran beside it.  When *)
(* the run is a single set(L, v) followed by takes of L, at most one take  *)
(* returns v, and once a take has returned exactly one has; the others     *)
(* return nothing.                                                         *)
C9_TakeAtomic ==
    /\ Cardinality({t \in Threads : pc[t] \in {"locked", "removing", "unlock"}}) <= 1
    /\ \A t \in Threads : pc[t] \in {"locked", "removing", "unlock"} => mutex = t
    /\ OneShot(hist)
    /\ OneSetThenTakes =>
          /\ Cardinality(TakesReturning(hist, hist[1].arg)) <= 1
          /\ Len(hist) >= 2 => Cardinality(TakesReturning(hist, hist[1].arg)) = 1
          /\ \A i \in 2..Len(hist) : hist[i].ret \in {hist[1].arg, None}

C9_Witness ==
    /\ OneSetThenTakes
    /\ \A t \in Threads : pc[t] = "done"
    /\ Len(hist) = NumThreads
    /\ hist[2].ret = Some("p1")
    /\ \A i \in 3..Len(hist) : hist[i].ret = None

(* C10: peek(L) returns the value stored for L and leaves the cache as it  *)
(* is: peeks of L in a row return the same value and a take of L right     *)
(* after them returns it too; set, take and peek of L leave the entries of *)
(* every other label as they were.                                         *)
C10_PeekStep ==
    /\ last'.op = "peek" =>
          /\ cache' = cache
          /\ last'.value = <<cache[last'.label]>>
    /\ last'.op \in {"set", "take", "peek"} =>
          \A l \in PayloadLabels \ {last'.label} : cache'[l] = cache[l]

C10_PeekThenSame ==
    \A i \in 1..(Len(hist) - 1) :
        (hist[i].op = "peek" /\ hist[i + 1].op \in {"peek", "take"}
           /\ hist[i + 1].label = hist[i].label) =>
            hist[i + 1].ret = hist[i].ret

C10_PeekFrame == [](C10_PeekThenSame) /\ [][C10_PeekStep]_vars

C10_Witness ==
    /\ Len(hist) = 4
    /\ hist[1] = Called("set", "tray-popup", Some("p1"), None)
    /\ hist[2] = Called("peek", "tray-popup", None, Some("p1"))
    /\ hist[3] = Called("peek", "tray-popup", None, Some("p1"))
    /\ hist[4] = Called("take", "tray-popup", None, Some("p1"))

----------------------------------------------------------------------------
(* Properties of the popup positioner.  In a state left by PlacePopup:     *)

Placed == last.op = "popup_position"

PlacedRect == last.value[1]

(* the scale factor the code works with *)
PlacedScale == IF last.value[2] /\ last.value[3].some THEN last.value[3].val ELSE Eighths(1)

(* the monitors the code clamps against: none without a popup handle or    *)
(* without the host's monitor list                                         *)
PlacedMonitors ==
    IF last.value[2] /\ last.value[4].some
    THEN {last.value[4].val[i] : i \in 1..Len(last.value[4].val)}
    ELSE {}

PlacedAt == last.value[5]

PlacedWidth == PopupWidth(tray_popup, PlacedScale)

PlacedHeight == PopupHeight(tray_popup, PlacedScale)

PlacedCandidate == Candidate(platform, tray_popup, PlacedRect, PlacedScale)

MonLeft(m) == Eighths(m.x)

MonTop(m) == Eighths(m.y)

MonRight(m) == Eighths(m.x) + Eighths(m.width)

MonBottom(m) == Eighths(m.y) + Eighths(m.height)

(* The anchor rectangle lies fully inside monitor m *)
AnchorInside(m) ==
    LET icon == IconPosition(PlacedRect, PlacedScale)
        isz == IconSize(PlacedRect, PlacedScale)
    IN  /\ MonLeft(m) <= icon[1] /\ icon[1] + isz[1] <= MonRight(m)
        /\ MonTop(m) <= icon[2] /\ icon[2] + isz[2] <= MonBottom(m)

PopupFits(m) ==
    /\ PlacedWidth <= Eighths(m.width)
    /\ PlacedHeight <= Eighths(m.height)

-----------------------------------------------------------------------------
(* Properties of the run closure and of quit *)

MainCloseStep(f) == OnWindowEvent("main", CloseRequested, f)

(* C13: a close request on the main window never destroys it: the close   *)
(* is prevented, so the main window is still there exactly as it was,     *)
(* visibility included; its state is saved under WINDOW_STATE_FLAGS when  *)
(* the save succeeds; and the handler emits main-close-requested exactly  *)
(* once and nothing else.                                                 *)
C13_MainCloseStep ==
    \A f \in 0..1 :
        MainCloseStep(f) =>
            /\ Lookup(windows, "main").some
            /\ Lookup(windows', "main") = Lookup(windows, "main")
            /\ windows' = windows
            /\ emitted' = <<MainCloseRequested>>
            /\ f = 0 => store'["main"] =
                            Some(WindowState(Lookup(windows, "main").val, WINDOW_STATE_FLAGS))

C13_MainCloseRequested == [][last'.op = "window_event" => C13_MainCloseStep]_vars

C13_Witness ==
    /\ last.op = "window_event"
    /\ last.label = "main"
    /\ last.value = <<CloseRequested, 0, TRUE>>
    /\ IsVisible(windows, "main")
    /\ store["main"].some
    /\ emitted = <<MainCloseRequested>>


PopupFocusLost(f) == OnWindowEvent("tray-popup", Focused(FALSE), f)

PopupHidden(ws) == Lookup(ws, "tray-popup").some /\ ~IsVisible(ws, "tray-popup")

(* The right-clicks whose host calls all succeed *)
RightClickOk ==
    \E r \in TrayRects, env \in TrayEnvs :
        env.fcreate = 0 /\ env.fshow = 0 /\ TrayRightClick(r, env)

(* C14: when the tray popup loses focus it is hidden and not destroyed:   *)
(* the same handle is still there, invisible, and a tray right-click on   *)
(* a hidden popup makes it visible again.  Focus lost while there is no   *)
(* popup changes no window, saves and emits nothing, and does not fail.   *)
C14_FocusLostStep ==
    /\ PopupFocusLost(0) /\ Lookup(windows, "tray-popup").some =>
          /\ PopupHidden(windows')
          /\ Lookup(windows', "tray-popup").val.id = Lookup(windows, "tray-popup").val.id
          /\ { w \in windows' : w.label # "tray-popup" } = { w \in windows : w.label # "tray-popup" }
    /\ \A f \in 0..1 :
          PopupFocusLost(f) /\ ~Lookup(windows, "tray-popup").some =>
              /\ windows' = windows
              /\ store' = store
              /\ emitted' = <<>>
              /\ last'.ret = "Ok"
              /\ phase' = "running"

C14_ShownAgainStep ==
    RightClickOk /\ PopupHidden(windows) => IsVisible(windows', "tray-popup")

C14_PopupFocusLost ==
    [][/\ last'.op = "window_event" => C14_FocusLostStep
       /\ last'.op = "tray_right_click" => C14_ShownAgainStep]_vars

C14_Witness ==
    /\ last.op = "window_event"
    /\ last.label = "tray-popup"
    /\ last.value = <<Focused(FALSE), 0, TRUE>>
    /\ PopupHidden(windows)


SavedFlags == { "SIZE", "POSITION", "MAXIMIZED", "FULLSCREEN", "DECORATIONS" }

(* The steps that write the store *)
SaveStep == MainCloseStep(0) \/ QuitApp(0)

(* C15: whatever the store holds for a window was saved under exactly the *)
(* flags size, position, maximized, fullscreen and decorations: no saved  *)
(* state has a visibility entry, whatever ran before; and the store is    *)
(* written by a close request on main and by quit only.                   *)
C15_SavedUnderFlags ==
    \A l \in Labels :
        store[l].some => /\ DOMAIN store[l].val = SavedFlags
                         /\ "VISIBLE" \notin DOMAIN store[l].val

C15_NoVisibilitySaved ==
    /\ []C15_SavedUnderFlags
    /\ [][store' # store => SaveStep]_vars

C15_Witness ==
    /\ last.op = "quit_app"
    /\ last.value = <<0>>
    /\ phase = "exited"
    /\ store["main"].some
    /\ store["tray-popup"].some
    /\ IsVisible(windows, "main")
    /\ ~IsVisible(windows, "tray-popup")

-----------------------------------------------------------------------------
(* Properties of create_window's failures *)

(* C16: whenever the host has built the window, create returns success    *)
(* and the window exists, whichever later step fails: applying the        *)
(* effect, the overlay titlebar, the traffic-light inset, transparency.   *)
C16_BuiltStep ==
    last'.op \in CreateOps /\ last'.built =>
        /\ Lookup(windows', last'.label).some
        /\ last'.ret = "Ok"

C16_BuiltIsSuccess == [][C16_BuiltStep]_vars

(* What does hold: the window the host built stays, whatever create       *)
(* returns                                                                *)
C16_BuiltStays ==
    [][last'.op \in CreateOps /\ last'.built => Lookup(windows', last'.label).some]_vars


(* The create takes the single-instance branch: it focuses, builds nothing *)
FocusBranch(config) == config.single_instance /\ Lookup(windows, config.label).some

ParentMissing(config) ==
    config.parent_label # NoLabel /\ ~Lookup(windows, config.parent_label).some

FailedWith(ret) ==
    /\ last'.ret = ret
    /\ ~last'.built
    /\ windows' = windows
    /\ focus' = focus

(* C17 as stated: every create whose config names a parent without a live *)
(* window fails with parent-not-found and constructs no window.           *)
C17_ParentMissingStep ==
    \/ FailedWith("ParentNotFound")
    \/ \A c \in CustomConfigs, f \in CustomFails :
          ~(ParentMissing(c) /\ CreateCustomWindow(c, f, TRUE))

C17_ParentMissingAlwaysFails ==
    [][last'.op = "create_custom_window" => C17_ParentMissingStep]_vars

(* C17: a create that does not take the single-instance branch and whose  *)
(* config names a parent without a live window fails with                 *)
(* parent-not-found; one whose parent is fine and whose construction the  *)
(* host fails, fails with the host's failure; neither adds a window nor   *)
(* changes one.  A create that takes the single-instance branch never     *)
(* looks at the parent.                                                   *)
C17_CustomStep ==
    /\ \/ FailedWith("ParentNotFound")
       \/ \A c \in CustomConfigs, f \in CustomFails :
             ~(ParentMissing(c) /\ ~FocusBranch(c) /\ CreateCustomWindow(c, f, TRUE))
    /\ \/ FailedWith("HostFailure")
       \/ \A c \in CustomConfigs :
             ~(~ParentMissing(c) /\ ~FocusBranch(c) /\ CreateCustomWindow(c, 5, TRUE))

C17_PresetStep ==
    \/ FailedWith("HostFailure")
    \/ \A l \in Labels :
          ~(/\ from_label(l).some
            /\ ~FocusBranch(from_label(l).val)
            /\ CreateWindow(l, 5, TRUE))

C17_StructuralFailures ==
    [][/\ last'.op = "create_custom_window" => C17_CustomStep
       /\ last'.op = "create_window" => C17_PresetStep]_vars

C17_Witness ==
    /\ last.op = "create_custom_window"
    /\ last.ret = "ParentNotFound"
    /\ ~Lookup(windows, "note").some
    /\ ~Lookup(windows, "tray-popup").some


(* C18: a create-with-payload for a label without preset returns the      *)
(* no-preset failure and leaves the shared state as it was: no window is  *)
(* created and the payload cache is unchanged.                            *)
C18_NoPresetStep ==
    last'.op = "create_window_with_payload" /\ ~from_label(last'.label).some =>
        /\ last'.ret = "NoPreset"
        /\ windows' = windows
        /\ cache' = cache

C18_FailureLeavesState == [][C18_NoPresetStep]_vars

(* What does hold: the failure is reported and no window is touched *)
C18_NoPresetNoWindow ==
    [][last'.op = "create_window_with_payload" /\ ~from_label(last'.label).some =>
          last'.ret = "NoPreset" /\ windows' = windows /\ focus' = focus]_vars

-----------------------------------------------------------------------------
(* Properties of the preset catalog *)

Found == last.value[1]

(* C19: the lookup answers for every label, and the same each time; it    *)
(* knows exactly main, mini-player, desktop-lyrics, settings, about and   *)
(* tray-popup, each under its own label; mini-player is not resizable,    *)
(* transparent, always on top and not closeable to tray; main is the only *)
(* preset closeable to tray; tray-popup is not resizable, initially       *)
(* hidden and transparent.                                                *)
C19_PresetCatalog ==
    last.op = "from_label" =>
        /\ Found.some <=> last.label \in PresetLabels
        /\ Found.some => Found.val.label = last.label
        /\ Found.some => (Found.val.closeable_to_tray <=> last.label = "main")
        /\ last.label = "mini-player" =>
              /\ ~Found.val.resizable
              /\ Found.val.transparent
              /\ Found.val.always_on_top
              /\ ~Found.val.closeable_to_tray
        /\ last.label = "tray-popup" =>
              /\ ~Found.val.resizable
              /\ ~Found.val.visible
              /\ Found.val.transparent
        /\ Len(last.value) = 3 /\ last.value[2] = last.label => last.value[3] = Found
        /\ Cardinality({l \in ProbeLabels : from_label(l).some}) = 6

C19_Witness ==
    /\ last.op = "from_label"
    /\ last.label = "mini-player"
    /\ Found = Some(mini_player)
    /\ Len(last.value) = 3
    /\ last.value[2] = "unknown-label"
    /\ last.value[3] = None

-----------------------------------------------------------------------------
(* Properties of creates that run side by side *)

Creating(t, label) == tmp[t].op = "create" /\ tmp[t].label = label

(* Two calls for the label have both passed the lookup of line 22 without *)
(* finding a window                                                       *)
BothBuild(label) ==
    \E t1, t2 \in Threads :
        /\ t1 # t2
        /\ Creating(t1, label) /\ pc[t1] = "build"
        /\ Creating(t2, label) /\ pc[t2] = "build"

Returned(label) == { i \in 1..Len(hist) : hist[i].op = "create" /\ hist[i].label = label }

(* C20: of the creates for one single-instance label that run side by     *)
(* side, no two are past the existence check with construction ahead of   *)
(* both; every call that has returned has returned success; and there is  *)
(* one window of the label then.                                          *)
C20_CreatesSerialize ==
    \A label \in {c.label : c \in RaceConfigs} :
        /\ ~BothBuild(label)
        /\ \A i \in Returned(label) : hist[i].ret = Some("Ok")
        /\ Returned(label) # {} => Cardinality({w \in windows : w.label = label}) = 1

(* What does hold: the host never has two windows of one label *)
C20_OneWindow ==
    \A label \in Labels : Cardinality({w \in windows : w.label = label}) <= 1

-----------------------------------------------------------------------------
(* Properties of the commands that show a window *)

(* The window of the label before and after the step *)
Was(label) == Lookup(windows, label).val

Now(label) == Lookup(windows', label).val

(* The step left every window but the label's as it was, and the label's   *)
(* window in place                                                         *)
OthersKept(label) ==
    /\ Lookup(windows', label).some
    /\ Now(label).id = Was(label).id
    /\ { w \in windows' : w.label # label } = { w \in windows : w.label # label }

(* C21: show_at on a live window repositions, then shows, then focuses:    *)
(* a call whose set-position fails fails and leaves the window neither     *)
(* moved, shown nor focused; one whose show fails has moved the window     *)
(* and not shown or focused it; one whose set-focus fails has moved and    *)
(* shown it and not focused it; a call that succeeds has done all three.   *)
(* So no call turns an invisible window visible anywhere but at (x, y).    *)
C21_ShowAtStep ==
    \A l \in {last'.label}, xy \in ShowPositions, f \in 0..3 :
        Lookup(windows, l).some /\ ShowWindowAtPosition(l, xy, f) =>
            /\ OthersKept(l)
            /\ last'.ret = IF f = 0 THEN "Ok" ELSE "HostFailure"
            /\ f = 1 => windows' = windows /\ focus' = focus
            /\ f # 1 => Now(l).pos = xy
            /\ f = 2 => Now(l).visible = Was(l).visible /\ focus' = focus
            /\ f \in {0, 3} => Now(l).visible
            /\ f = 3 => focus' = focus
            /\ f = 0 => focus' = Was(l).id
            /\ Now(l).visible /\ ~Was(l).visible => Now(l).pos = xy

C21_ShowAtOrder == [][last'.op = "show_window_at_position" => C21_ShowAtStep]_vars

C21_Witness ==
    /\ last.op = "show_window_at_position"
    /\ last.label = "tray-popup"
    /\ last.ret = "HostFailure"
    /\ Lookup(windows, "tray-popup").some
    /\ Lookup(windows, "tray-popup").val.pos = <<-30, 16>>
    /\ ~IsVisible(windows, "tray-popup")


(* The host reports the window as minimized: the query answers, and says   *)
(* so                                                                      *)
ReportedMinimized(l, q) == q /\ Was(l).minimized

(* A call that would fail in unminimize fails exactly if it calls it *)
CallsUnminimize == last'.ret = "HostFailure"

(* C23: toggle (when it shows), focus and the single-instance branch of    *)
(* create call unminimize exactly when is_minimized answers and says the   *)
(* window is minimized at that moment: never on a window that is hidden    *)
(* and not minimized, never when the query fails, and never when toggle    *)
(* hides.  A call that does not call it leaves the minimized state alone.  *)
C23_UnminimizeStep ==
    \A l \in {last'.label}, q \in BOOLEAN :
        Lookup(windows, l).some =>
            /\ last'.op = "toggle_window" /\ ToggleWindow(l, 3, q) =>
                  /\ CallsUnminimize <=> (~Was(l).visible /\ ReportedMinimized(l, q))
                  /\ ~CallsUnminimize => Now(l).minimized = Was(l).minimized
            /\ last'.op = "focus_window" /\ FocusWindow(l, 2, q) =>
                  /\ CallsUnminimize <=> ReportedMinimized(l, q)
                  /\ ~CallsUnminimize => Now(l).minimized = Was(l).minimized
            /\ last'.op = "create_window" /\ CreateWindow(l, 2, q) =>
                  /\ CallsUnminimize <=> ReportedMinimized(l, q)
                  /\ ~CallsUnminimize => Now(l).minimized = Was(l).minimized
            /\ \/ last'.op = "toggle_window" /\ ToggleWindow(l, 0, q)
               \/ last'.op = "focus_window" /\ FocusWindow(l, 0, q)
               \/ last'.op = "create_window" /\ CreateWindow(l, 0, q)
               =>
                  /\ last'.ret = "Ok"
                  /\ Now(l).minimized # Was(l).minimized => ReportedMinimized(l, q)

C23_UnminimizeOnlyMinimized ==
    [][last'.op \in {"toggle_window", "focus_window", "create_window"} => C23_UnminimizeStep]_vars

C23_Witness ==
    /\ last.op = "toggle_window"
    /\ last.label = "main"
    /\ last.ret = "Ok"
    /\ ~last.value[1]
    /\ IsVisible(windows, "main")
    /\ IsMinimized(windows, "main")


(* The host without its main window *)
WithoutMain == { w \in windows : w.label # "main" }

(* C30: a left click on the tray shows the main window and never toggles   *)
(* it: after a click whose host calls succeed the main window is visible   *)
(* and focused, whether it was visible or hidden before, nothing else      *)
(* about it or about another window has changed, and                       *)
(* main-window-visibility(true) was emitted, once.  Without a main window  *)
(* show_window reports not-found and changes nothing.                      *)
C30_LeftClickStep ==
    /\ TrayLeftClick(0) =>
          /\ Lookup(windows, "main").some
          /\ last'.ret = "Ok"
          /\ windows' = HostShow(windows, Was("main").id)
          /\ IsVisible(windows', "main")
          /\ focus' = Was("main").id
          /\ emitted' = <<MainWindowVisibility(TRUE)>>
    /\ show_window(WithoutMain, focus, "main", 0) =
          Outcome("NotFound", WithoutMain, focus, <<>>, FALSE)

C30_LeftClickShows == [][last'.op = "tray_left_click" => C30_LeftClickStep]_vars

C30_Witness ==
    /\ last.op = "tray_left_click"
    /\ last.ret = "Ok"
    /\ IsVisible(windows, "main")
    /\ IsMinimized(windows, "main")
    /\ focus = Lookup(windows, "main").val.id
    /\ emitted = <<MainWindowVisibility(TRUE)>>


----------------------------------------------------------------------------
(* Properties of startup *)

PopupReady == Exists("tray-popup")' /\ ~IsVisible(windows', "tray-popup")

(* C22: startup always reaches the running state, whether or not tray      *)
(* setup fails and whether or not the pre-creation of the tray popup       *)
(* fails; when the pre-creation succeeds the popup exists and is hidden    *)
(* once startup is over.                                                   *)
C22_StartupAlwaysRuns ==
    [][last'.op = "setup" =>
          /\ phase' = "running"
          /\ last'.ret = "Ok" => PopupReady]_vars

(* What does hold: a startup whose calls on the main window succeed        *)
(* reaches the running state under every outcome of tray setup and of the  *)
(* pre-creation, the tray is there exactly if its setup succeeded, and a   *)
(* pre-creation that succeeds leaves the popup hidden.                     *)
C22_TrayAndPopupNeverBlock ==
    [][\A t \in BOOLEAN, f \in StartupFails :
          Setup(TRUE, t, f) =>
             /\ phase' = "running"
             /\ tray' = t
             /\ f = 0 => last'.ret = "Ok"
             /\ f = 5 => last'.ret = "HostFailure" /\ ~Exists("tray-popup")'
             /\ last'.ret = "Ok" => PopupReady
             /\ Lookup(windows', "main") = Lookup(windows, "main")]_vars

C22_Panicked == phase = "panicked" /\ platform = "macos" /\ last.op = "setup"


----------------------------------------------------------------------------
(* Properties of the right click on the tray *)

PresetSize == <<tray_popup.width, tray_popup.height>>

Popup(ws) == Lookup(ws, "tray-popup")

(* The position show_tray_popup hands to the host for this click *)
Computed(r, env) ==
    LET xy == PopupPosition(platform, tray_popup, r, TRUE, env.scale, env.monitors)
    IN  <<AsI32(xy[1]), AsI32(xy[2])>>

RightClickStep(Q(_, _)) ==
    last'.op = "tray_right_click" =>
       \A r \in TrayRects, env \in TrayEnvs : TrayRightClick(r, env) => Q(r, env)

(* C24 as stated: the popup is positioned, then its size is forced, then   *)
(* tray-popup-opened is emitted: a click that fails at the positioning     *)
(* has not touched the size, and a click that succeeds ends with the       *)
(* preset size and one tray-popup-opened; none when showing fails.         *)
C24_StatedStep(r, env) ==
    /\ last'.ret = "Ok" =>
          /\ Popup(windows').val.size = PresetSize
          /\ emitted' = <<TrayPopupOpened>>
    /\ last'.ret # "Ok" => emitted' = <<>>
    /\ Popup(windows).some /\ env.fshow = 1 =>
          Popup(windows').val.size = Popup(windows).val.size

C24_PositionThenSize == [][RightClickStep(C24_StatedStep)]_vars

(* C24: the size is forced first, then the popup is positioned, shown and  *)
(* focused, then tray-popup-opened is emitted.  When the host's set_size   *)
(* succeeds the popup has the preset size at the end of the handling,      *)
(* whatever its size before and also when positioning or showing fails     *)
(* afterwards; when set_size fails the size stays and the click goes on.   *)
(* A click that succeeds emits tray-popup-opened once, a click that fails  *)
(* emits nothing.                                                          *)
C24_AmendedStep(r, env) ==
    /\ Popup(windows').some /\ env.size_ok =>
          Popup(windows').val.size = PresetSize
    /\ Popup(windows).some /\ ~env.size_ok =>
          Popup(windows').val.size = Popup(windows).val.size
    /\ last'.ret = "Ok" =>
          /\ Popup(windows').val.visible
          /\ Popup(windows').val.pos = Computed(r, env)
          /\ emitted' = <<TrayPopupOpened>>
    /\ last'.ret # "Ok" => emitted' = <<>>
    /\ Popup(windows).some /\ env.fshow = 1 =>
          /\ last'.ret = "HostFailure"
          /\ Popup(windows').val.pos = Popup(windows).val.pos
          /\ Popup(windows').val.visible = Popup(windows).val.visible

C24_SizeThenPosition == [][RightClickStep(C24_AmendedStep)]_vars

C24_Witness ==
    /\ last.op = "tray_right_click"
    /\ last.ret = "HostFailure"
    /\ ~last.built
    /\ Popup(windows).some
    /\ Popup(windows).val.size = PresetSize
    /\ Popup(windows).val.pos = <<-30, 16>>
    /\ ~Popup(windows).val.visible

(* C25: a right click that finds no tray popup creates it from the preset  *)
(* before it positions anything.  A click whose host calls succeed ends    *)
(* with the popup existing, visible and at the computed position, from     *)
(* every state; a click that fails in the lazy creation fails without      *)
(* showing any window; a click that fails at the positioning has already   *)
(* created the popup.                                                      *)
C25_Step(r, env) ==
    /\ env.fcreate = 0 /\ env.fshow = 0 =>
          /\ last'.ret = "Ok"
          /\ last'.built = ~Popup(windows).some
          /\ Popup(windows').some
          /\ Popup(windows').val.visible
          /\ Popup(windows').val.pos = Computed(r, env)
    /\ last'.ret # "Ok" /\ env.fshow = 0 =>
          /\ ~Popup(windows).some
          /\ env.fcreate # 0
          /\ emitted' = <<>>
          /\ \A w \in windows' : w.visible => w \in windows
    /\ ~Popup(windows).some /\ env.fcreate = 0 /\ env.fshow = 1 =>
          /\ last'.ret = "HostFailure"
          /\ last'.built
          /\ Popup(windows').some
          /\ ~Popup(windows').val.visible
    /\ \A w \in windows : w.label # "tray-popup" => w \in windows'

C25_LazyCreation == [][RightClickStep(C25_Step)]_vars

C25_Witness ==
    /\ last.op = "tray_right_click"
    /\ last.ret = "Ok"
    /\ last.built
    /\ Popup(windows).val.visible
    /\ Popup(windows).val.pos = <<540, 242>>
    /\ emitted = <<TrayPopupOpened>>


----------------------------------------------------------------------------
(* Properties of the positioner's monitor selection, clamp and candidate *)

(* the monitor list the host answered, empty where the code has none *)
PlacedList == IF last.value[2] /\ last.value[4].some THEN last.value[4].val ELSE <<>>

(* The anchor's top-left point in eighths of a physical pixel: logical     *)
(* coordinates times the scale factor, physical ones as given              *)
AnchorAt ==
    IF PlacedRect.position.kind = "Logical"
    THEN <<PlacedRect.position.x * PlacedScale, PlacedRect.position.y * PlacedScale>>
    ELSE <<8 * PlacedRect.position.x, 8 * PlacedRect.position.y>>

AnchorSize ==
    IF PlacedRect.size.kind = "Logical"
    THEN <<PlacedRect.size.width * PlacedScale, PlacedRect.size.height * PlacedScale>>
    ELSE <<8 * PlacedRect.size.width, 8 * PlacedRect.size.height>>

(* [left, right) x [top, bottom) of monitor m holds the anchor's point *)
HalfOpenHolds(m) ==
    /\ MonLeft(m) <= AnchorAt[1] /\ AnchorAt[1] < MonRight(m)
    /\ MonTop(m) <= AnchorAt[2] /\ AnchorAt[2] < MonBottom(m)

(* i is the first monitor of the list that holds the anchor's point *)
FirstHolding(i) ==
    /\ HalfOpenHolds(PlacedList[i])
    /\ \A j \in 1..(i - 1) : ~HalfOpenHolds(PlacedList[j])

Selected == \E i \in 1..Len(PlacedList) : FirstHolding(i)

(* C26: when the popup is wider than the monitor that holds the anchor the *)
(* clamped x is the monitor's left coordinate, when it is taller the       *)
(* clamped y is the monitor's top coordinate; the upper bounds of the      *)
(* clamp, max(right - popup width, left) and max(bottom - popup height,    *)
(* top), are never below its lower bounds, left and top.                   *)
C26_OversizeCollapses ==
    Placed =>
        \A i \in 1..Len(PlacedList) :
            FirstHolding(i) =>
                LET m == PlacedList[i] IN
                /\ PlacedWidth > Eighths(m.width) => PlacedAt[1] = MonLeft(m)
                /\ PlacedHeight > Eighths(m.height) => PlacedAt[2] = MonTop(m)
                /\ Max(MonRight(m) - PlacedWidth, MonLeft(m)) >= MonLeft(m)
                /\ Max(MonBottom(m) - PlacedHeight, MonTop(m)) >= MonTop(m)

(* an anchor on the 200 x 150 monitor, whose candidate lies to the right   *)
(* of and below the monitor's origin on macOS                              *)
C26_Witness ==
    /\ Placed
    /\ platform = "macos"
    /\ PlacedRect = PhysicalRect(199, 149, 24, 24)
    /\ PlacedScale = Eighths(1)
    /\ Len(PlacedList) = 3
    /\ FirstHolding(1)
    /\ PlacedWidth > Eighths(PlacedList[1].width)
    /\ PlacedHeight > Eighths(PlacedList[1].height)
    /\ PlacedCandidate[1] > 0
    /\ PlacedCandidate[2] > 0
    /\ PlacedAt = <<0, 0>>

(* C27: the popup is clamped into the first monitor of the host's list     *)
(* whose half-open bounds hold the anchor's top-left point.  When no       *)
(* monitor holds it, or the host gives no monitor list, the position is    *)
(* the unclamped candidate, and a right click whose other host calls       *)
(* succeed shows the popup there and succeeds.                             *)
C27_Selection ==
    /\ Placed =>
          /\ \A i \in 1..Len(PlacedList) :
                FirstHolding(i) =>
                   PlacedAt = ClampToMonitor(PlacedList[i], tray_popup, PlacedScale,
                                             PlacedCandidate)
          /\ ~Selected => PlacedAt = PlacedCandidate

C27_UnclampedStep(r, env) ==
    LET sc == IF env.scale.some THEN env.scale.val ELSE Eighths(1)
        cand == Candidate(platform, tray_popup, r, sc)
        icon == IconPosition(r, sc)
        ms == IF env.monitors.some THEN env.monitors.val ELSE <<>>
    IN  (\A i \in 1..Len(ms) : ~MonitorContains(ms[i], icon)) =>
           /\ last'.ret = "Ok"
           /\ Popup(windows').val.visible
           /\ Popup(windows').val.pos = <<AsI32(cand[1]), AsI32(cand[2])>>

C27_ShownUnclamped ==
    [][last'.op = "tray_right_click" =>
          \A r \in ClickRects, env \in ClampEnvs :
              TrayRightClick(r, env) => C27_UnclampedStep(r, env)]_vars

C27_MonitorSelection == []C27_Selection /\ C27_ShownUnclamped

(* the anchor at x = 700 lies on both mirrored monitors; the popup is      *)
(* clamped into the one listed first, the right one                        *)
C27_Witness ==
    /\ Placed
    /\ platform = "windows"
    /\ PlacedRect = PhysicalRect(700, 580, 24, 24)
    /\ PlacedScale = Eighths(1)
    /\ PlacedList = MonitorsOverlapReversed
    /\ FirstHolding(1)
    /\ HalfOpenHolds(PlacedList[2])
    /\ PlacedAt = <<Eighths(582), Eighths(262)>>

(* The physical anchor a logical anchor stands for at the scale factor *)
WholePixels ==
    /\ AnchorAt[1] % 8 = 0 /\ AnchorAt[2] % 8 = 0
    /\ AnchorSize[1] % 8 = 0 /\ AnchorSize[2] % 8 = 0

EquivalentPhysical ==
    PhysicalRect(AnchorAt[1] \div 8, AnchorAt[2] \div 8,
                 AnchorSize[1] \div 8, AnchorSize[2] \div 8)

(* C28: with scale factor s the candidate is                               *)
(*   x = anchor_x + anchor_w / 2 - popup_w / 2,                            *)
(*   y = anchor_y + anchor_h + gap on macOS, where the popup goes below,   *)
(*   y = anchor_y - popup_h - gap elsewhere, where it goes above,          *)
(* the anchor in physical pixels (logical coordinates times s), the popup  *)
(* 260 s by 310 s and the gap 8 s; it is the position when nothing is      *)
(* clamped.  A logical anchor is placed where the physical anchor it       *)
(* stands for is placed.                                                   *)
C28_CandidateFormula ==
    Placed =>
        /\ 2 * PlacedCandidate[1] = 2 * AnchorAt[1] + AnchorSize[1] - 260 * PlacedScale
        /\ platform = "macos" =>
              PlacedCandidate[2] = AnchorAt[2] + AnchorSize[2] + 8 * PlacedScale
        /\ platform # "macos" =>
              PlacedCandidate[2] = AnchorAt[2] - 310 * PlacedScale - 8 * PlacedScale
        /\ ~Selected => PlacedAt = PlacedCandidate
        /\ (PlacedRect.position.kind = "Logical" /\ WholePixels) =>
              PlacedAt = PopupPosition(platform, tray_popup, EquivalentPhysical,
                                       last.value[2], last.value[3], last.value[4])

(* a logical anchor at scale 1.5: (560, 400) stands for (840, 600) *)
C28_Witness ==
    /\ Placed
    /\ platform = "macos"
    /\ PlacedRect = LogicalRect(560, 400, 24, 24)
    /\ PlacedScale = 12
    /\ PlacedList = <<>>
    /\ EquivalentPhysical = PhysicalRect(840, 600, 36, 36)
    /\ PlacedAt = <<Eighths(663), Eighths(648)>>


----------------------------------------------------------------------------
(* Properties of the run closure as a whole *)

Ids(ws) == {w.id : w \in ws}

VisibleIds(ws) == {w.id : w \in {v \in ws : v.visible}}

(* The combinations the run closure acts on *)
Routed(label, event) ==
    \/ label = "main" /\ event.kind = "CloseRequested"
    \/ label = "tray-popup" /\ event = Focused(FALSE)
    \/ label = "desktop-lyrics" /\ event.kind \in {"Moved", "Resized"}

(* The window a close request destroys when nothing prevents it *)
ClosedByHost(label, event) ==
    IF event.kind = "CloseRequested" /\ Exists(label)
    THEN {Lookup(windows, label).val.id}
    ELSE {}

(* C29: the run closure changes state or emits only for close-requested on *)
(* main, focus-lost on the tray popup and moved or resized on              *)
(* desktop-lyrics.  For every other label and event it returns what it     *)
(* was given: nothing is emitted, the payload cache and the saved state    *)
(* stay, every window keeps its visibility, and no window comes or goes    *)
(* but the one whose close request the closure did not prevent, which the  *)
(* host then destroys.  Moved and resized on desktop-lyrics emit exactly   *)
(* one desktop-lyrics-moved or desktop-lyrics-resized with the event's     *)
(* values and change nothing else.                                         *)
C29_RouterStep(label, event, f) ==
    /\ cache' = cache
    /\ ~Routed(label, event) =>
          /\ on_window_event(windows, store, label, event, f)
                = Handled(windows, store, <<>>, FALSE)
          /\ emitted' = <<>>
          /\ store' = store
          /\ Ids(windows') = Ids(windows) \ ClosedByHost(label, event)
          /\ VisibleIds(windows') = VisibleIds(windows) \ ClosedByHost(label, event)
    /\ (label = "desktop-lyrics" /\ event.kind = "Moved") =>
          emitted' = <<[name |-> "desktop-lyrics-moved", arg |-> event.arg]>>
    /\ (label = "desktop-lyrics" /\ event.kind = "Resized") =>
          emitted' = <<[name |-> "desktop-lyrics-resized", arg |-> event.arg]>>
    /\ (label = "desktop-lyrics" /\ event.kind \in {"Moved", "Resized"}) =>
          /\ store' = store
          /\ Ids(windows') = Ids(windows)
          /\ VisibleIds(windows') = VisibleIds(windows)
    /\ (label = "main" /\ event.kind = "CloseRequested") =>
          emitted' = <<MainCloseRequested>>
    /\ (label = "tray-popup" /\ event = Focused(FALSE)) => emitted' = <<>>

C29_RouterIgnoresTheRest ==
    [][last'.op = "window_event" =>
          \A le \in {c \in RouterCases : c[1] = last'.label /\ c[2] = last'.value[1]},
             f \in {last'.value[2]} :
              OnWindowEvent(le[1], le[2], f) => C29_RouterStep(le[1], le[2], f)]_vars

C29_Witness ==
    /\ last.op = "window_event"
    /\ last.label = "desktop-lyrics"
    /\ last.value[1] = Resized(<<640, 96>>)
    /\ Exists("desktop-lyrics")
    /\ Lookup(windows, "desktop-lyrics").val.size = <<640, 96>>
    /\ emitted = <<DesktopLyricsResized(<<640, 96>>)>>
    /\ cache["tray-popup"] = Some("p1")
    /\ store["main"].some


----------------------------------------------------------------------------
(* Properties of close and of the main window's lifetime *)

MainId == Lookup(windows, "main").val.id

(* C31: once the main window exists it exists in every later state, the    *)
(* same window: no command (create, show, hide, close, toggle, focus,      *)
(* show_at, resize), with its host calls succeeding or failing, and no     *)
(* event the run closure receives (close-requested, focus-lost, moved,     *)
(* resized) destroys it; close hides it.  Only quit, which ends the        *)
(* process, ends it.                                                       *)
C31_MainStep ==
    /\ Exists("main")'
    /\ Lookup(windows', "main").val.id = MainId
    /\ (last'.op = "close_managed_window" /\ last'.label = "main" /\ last'.ret = "Ok") =>
          windows' = HostHide(windows, MainId)

C31_MainStays ==
    [][(Exists("main") /\ phase' # "exited") => C31_MainStep]_vars

C31_Witness ==
    /\ last.op = "close_managed_window"
    /\ last.label = "main"
    /\ last.ret = "Ok"
    /\ Exists("main")
    /\ ~IsVisible(windows, "main")
    /\ Lookup(windows, "main").val.pos = <<540, 242>>
    /\ Lookup(windows, "main").val.size = <<320, 240>>
    /\ store["main"].some

(* C32: close decides between hiding and destroying from the preset        *)
(* catalog's entry for the label alone, never from the config the window   *)
(* was created with.  Every custom config here has a label without preset  *)
(* and asks for closeable_to_tray; a close of the window created from it   *)
(* whose host call succeeds destroys the window, while a close of the main *)
(* window, whose preset closes to the tray, hides it.                      *)
C32_CloseStep(label) ==
    /\ \A c \in CloseConfigs : c.closeable_to_tray /\ c.label \notin PresetLabels
    /\ (CloseManagedWindow(label, 0) /\ Exists(label)) =>
          /\ last'.ret = "Ok"
          /\ label = "note" =>
                /\ ~Exists("note")'
                /\ windows' = windows \ {Lookup(windows, "note").val}
          /\ label = "main" =>
                /\ Exists("main")'
                /\ ~IsVisible(windows', "main")
    /\ (CloseManagedWindow(label, 1) /\ Exists(label)) =>
          /\ last'.ret = "HostFailure"
          /\ windows' = windows

=============================================================================
